---- MODULE Spec2Model ----
(***************************************************************************)
(* Model of the rust-rush game engine: the A* pathfinder                   *)
(* (game-engine/src/pathfinding.rs) and the grid of main.rs.               *)
(*                                                                         *)
(* Conventions.  Option<Vec<Position>> is a sequence of positions; None is *)
(* the empty sequence (Some(path) always holds at least one position).     *)
(* std::collections::BinaryHeap leaves the order of Ord-equal elements     *)
(* unspecified, and HashMap iteration order is randomised; both are        *)
(* modelled as a nondeterministic choice, so an operator that depends on   *)
(* them yields the SET of results the build can produce.                   *)
(***************************************************************************)
EXTENDS Integers, Sequences, FiniteSets, TLC

\* pgrid, pcall: the grid handed to the pathfinder and the last call made on it
\* game: the Game (state: GameState, projectiles, effects)
\* last: the last operation called on the game, its arguments and what it did
\* hist: what has happened to the game since Game::new()
VARIABLES pgrid, pcall, game, last, hist

pvars == <<pgrid, pcall>>
gvars == <<game, last, hist>>
vars == <<pgrid, pcall, game, last, hist>>

(***************************************************************************)
(* Bounds of the pathfinder specification.                                 *)
(***************************************************************************)
\* width and height of the grids the pathfinder is run on
PathWidth == 3
PathHeight == 2
\* number of set_walkable calls that build a grid
MaxSets == 3

(***************************************************************************)
(* Position (main.rs)                                                      *)
(***************************************************************************)
Pos(x, y) == [x |-> x, y |-> y]

Abs(n) == IF n < 0 THEN -n ELSE n

manhattan_distance(a, b) == Abs(a.x - b.x) + Abs(a.y - b.y)

\* slip: one of the four moves is a diagonal
neighbors_diagonal(p) ==
    << Pos(p.x + 1, p.y), Pos(p.x - 1, p.y), Pos(p.x + 1, p.y + 1), Pos(p.x, p.y - 1) >>

\* the order of the vec! is the order in which find_path visits them
neighbors(p) ==
    << Pos(p.x + 1, p.y), Pos(p.x - 1, p.y), Pos(p.x, p.y + 1), Pos(p.x, p.y - 1) >>

(***************************************************************************)
(* Grid (main.rs): walkable is the HashMap<Position, bool>, a function     *)
(* whose domain is the set of keys inserted so far.                        *)
(***************************************************************************)
Grid_new(width, height) ==
    [width |-> width, height |-> height, walkable |-> << >>]

\* slip: the flags stored by set_walkable are not looked up
is_walkable_unmarked(grid, pos) ==
    IF pos.x < 0 \/ pos.x >= grid.width \/ pos.y < 0 \/ pos.y >= grid.height
    THEN FALSE
    ELSE TRUE

is_walkable(grid, pos) ==
    IF pos.x < 0 \/ pos.x >= grid.width \/ pos.y < 0 \/ pos.y >= grid.height
    THEN FALSE
    ELSE IF pos \in DOMAIN grid.walkable THEN grid.walkable[pos] ELSE TRUE

set_walkable(grid, pos, walkable) ==
    [grid EXCEPT !.walkable = (pos :> walkable) @@ @]

(***************************************************************************)
(* Pathfinder (pathfinding.rs)                                             *)
(***************************************************************************)
None == << >>

Node_new(position, g_cost, h_cost, parent) ==
    [position |-> position, g_cost |-> g_cost, h_cost |-> h_cost, parent |-> parent]

f_cost(n) == n.g_cost + n.h_cost

\* Ord for Node: Cmp(a, b) is -1, 0, 1 for a < b, a = b, a > b.
\* other.f_cost().cmp(&self.f_cost()).then_with(|| other.h_cost.cmp(&self.h_cost))
IntCmp(a, b) == IF a < b THEN -1 ELSE IF a > b THEN 1 ELSE 0

\* slip: the comparison is not reversed, so the heap pops the greatest f_cost
Node_cmp_unreversed(self, other) ==
    IF IntCmp(f_cost(self), f_cost(other)) # 0
    THEN IntCmp(f_cost(self), f_cost(other))
    ELSE IntCmp(self.h_cost, other.h_cost)

\* slip: on equal f_cost the h_cost is compared the other way round
Node_cmp_larger_h(self, other) ==
    IF IntCmp(f_cost(other), f_cost(self)) # 0
    THEN IntCmp(f_cost(other), f_cost(self))
    ELSE IntCmp(self.h_cost, other.h_cost)

Node_cmp(self, other) ==
    IF IntCmp(f_cost(other), f_cost(self)) # 0
    THEN IntCmp(f_cost(other), f_cost(self))
    ELSE IntCmp(other.h_cost, self.h_cost)

\* BinaryHeap::pop returns a greatest element; which one among Ord-equal
\* greatest elements is unspecified.
HeapTop(open_set) ==
    { n \in open_set : \A m \in open_set : Node_cmp(n, m) >= 0 }

heuristic(pos, goal) == manhattan_distance(pos, goal)

\* HashMap insert on a function
MapPut(m, k, v) == (k :> v) @@ m

RECURSIVE reconstruct_loop(_, _, _)
reconstruct_loop(came_from, current, path) ==
    IF current \in DOMAIN came_from
    THEN reconstruct_loop(came_from, came_from[current], <<came_from[current]>> \o path)
    ELSE path

\* the path is built goal first and reversed; the loop above prepends instead
reconstruct_path(came_from, current) ==
    reconstruct_loop(came_from, current, <<current>>)

\* The body of `for neighbor_pos in current_pos.neighbors()`, from the i-th
\* neighbour on.  st = [open_set, came_from, g_scores].
RECURSIVE ExpandNeighbors(_, _, _, _, _, _)
ExpandNeighbors(grid, goal, current, closed_set, st, i) ==
    IF i > 4 THEN st
    ELSE
      LET neighbor_pos == neighbors(current.position)[i]
          tentative_g == current.g_cost + 1
          is_better == IF neighbor_pos \in DOMAIN st.g_scores
                       THEN tentative_g < st.g_scores[neighbor_pos]
                       ELSE TRUE
      IN IF ~is_walkable(grid, neighbor_pos) \/ neighbor_pos \in closed_set
         THEN ExpandNeighbors(grid, goal, current, closed_set, st, i + 1)
         ELSE IF is_better
         THEN ExpandNeighbors(grid, goal, current, closed_set,
                [open_set |-> st.open_set \cup
                      {Node_new(neighbor_pos, tentative_g,
                                heuristic(neighbor_pos, goal), <<current.position>>)},
                 came_from |-> MapPut(st.came_from, neighbor_pos, current.position),
                 g_scores |-> MapPut(st.g_scores, neighbor_pos, tentative_g)],
                i + 1)
         ELSE ExpandNeighbors(grid, goal, current, closed_set, st, i + 1)

\* One iteration of `while let Some(current) = open_set.pop()` from the search
\* state s = [open_set, closed_set, came_from, g_scores], for the popped node
\* current: the search state the next iteration starts from.
PopStep(grid, goal, s, current) ==
    IF current.position \in s.closed_set
    THEN [s EXCEPT !.open_set = @ \ {current}]
    ELSE LET closed_set == s.closed_set \cup {current.position}
             st == ExpandNeighbors(grid, goal, current, closed_set,
                      [open_set |-> s.open_set \ {current},
                       came_from |-> s.came_from,
                       g_scores |-> s.g_scores], 1)
         IN [open_set |-> st.open_set, closed_set |-> closed_set,
             came_from |-> st.came_from, g_scores |-> st.g_scores]

\* The values the loop returns in one more iteration from a search state of S:
\* the reconstructed path when the popped node is the goal, None when the open
\* set is empty.
LoopReturns(goal, S) ==
    UNION { IF s.open_set = {} THEN {None}
            ELSE { reconstruct_path(s.came_from, current.position) :
                     current \in { n \in HeapTop(s.open_set) : n.position = goal } }
          : s \in S }

\* The set of results of the loop from the search states S, over every order
\* in which the heap may pop Ord-equal nodes.
RECURSIVE AStarLoop(_, _, _, _)
AStarLoop(grid, goal, S, results) ==
    IF S = {} THEN results
    ELSE AStarLoop(grid, goal,
            UNION { { PopStep(grid, goal, s, current) :
                        current \in { n \in HeapTop(s.open_set) : n.position # goal } }
                  : s \in S },
            results \cup LoopReturns(goal, S))

\* slip: the walkability of start and goal is not checked
find_path_unchecked(grid, start, goal) ==
    AStarLoop(grid, goal,
        { [open_set |-> {Node_new(start, 0, heuristic(start, goal), << >>)},
           closed_set |-> {},
           came_from |-> << >>,
           g_scores |-> MapPut(<< >>, start, 0)] },
        {})

\* find_path: the set of values it can return
find_path(grid, start, goal) ==
    IF ~is_walkable(grid, start) \/ ~is_walkable(grid, goal)
    THEN {None}
    ELSE AStarLoop(grid, goal,
            { [open_set |-> {Node_new(start, 0, heuristic(start, goal), << >>)},
               closed_set |-> {},
               came_from |-> << >>,
               g_scores |-> MapPut(<< >>, start, 0)] },
            {})

\* the simplification of find_waypoints, applied to one full path
RECURSIVE TurnPoints(_, _)
TurnPoints(full_path, i) ==
    IF i > Len(full_path) - 1 THEN << >>
    ELSE LET prev == full_path[i - 1]
             current == full_path[i]
             next == full_path[i + 1]
             dir1 == <<current.x - prev.x, current.y - prev.y>>
             dir2 == <<next.x - current.x, next.y - current.y>>
         IN (IF dir1 # dir2 THEN <<current>> ELSE << >>) \o TurnPoints(full_path, i + 1)

\* slip: the early return for paths of at most 2 points is missing
simplify_no_early_return(full_path) ==
    IF full_path = None THEN None
    ELSE <<full_path[1]>> \o TurnPoints(full_path, 2) \o <<full_path[Len(full_path)]>>

\* slip: the turn points are dropped, only the end points are kept
simplify_end_points_only(full_path) ==
    IF full_path = None THEN None
    ELSE IF Len(full_path) <= 2 THEN full_path
    ELSE <<full_path[1], full_path[Len(full_path)]>>

simplify(full_path) ==
    IF full_path = None THEN None
    ELSE IF Len(full_path) <= 2 THEN full_path
    ELSE <<full_path[1]>> \o TurnPoints(full_path, 2) \o <<full_path[Len(full_path)]>>

\* find_waypoints: the set of values it can return
find_waypoints(grid, start, goal) ==
    { simplify(full_path) : full_path \in find_path(grid, start, goal) }

(***************************************************************************)
(* Units.  The f32 quantities of main.rs are kept on an integer lattice:   *)
(* world coordinates in pixels, times in milliseconds, the slow multiplier *)
(* in percent, ranges and fire rates in tenths.  Comparisons of distances  *)
(* are made on the squares, which is exact on the lattice; a move along a  *)
(* direction is truncated to whole pixels.                                 *)
(***************************************************************************)
CELL_SIZE == 40

\* the grid of GameState::new() is 20 x 15; the model checks a smaller one
GRID_WIDTH == 3
GRID_HEIGHT == 2

\* bounds on the number of enemies spawned and of update calls
MaxEnemies == 1
MaxTicks == 3

\* num / den rounded to the nearest integer, ties to the even one (den > 0)
RoundHalfEven(num, den) ==
    LET q == num \div den
        r == num % den
    IN IF 2 * r > den THEN q + 1
       ELSE IF 2 * r < den THEN q
       ELSE IF q % 2 = 0 THEN q ELSE q + 1

\* the f32 nearest to the non-negative integer a: an f32 has 24 significant
\* bits, so a is halved (k times) until it has no more
RECURSIVE F32Nat(_, _)
F32Nat(a, k) ==
    IF a \div (2 ^ k) < 2 ^ 24
    THEN LET m == RoundHalfEven(a, 2 ^ k)
         IN m * (2 ^ k)
    ELSE F32Nat(a, k + 1)

\* the f32 nearest to the integer n: `n as f32`, and the rounding of an f32
\* product or sum whose exact value is the integer n (an integer of at most
\* 24 bits is an f32)
F32(n) ==
    IF -16777216 <= n /\ n <= 16777216 THEN n
    ELSE IF n >= 0 THEN F32Nat(n, 0) ELSE -F32Nat(-n, 0)

\* the floor of the f32 quotient a / d of the f32 values a >= 0 and d > 0,
\* rounded up instead when up is set: the exact quotient num / den * 2^e is
\* scaled to 24 significant bits (by 12, 6, 3 bits or 1 bit at a time),
\* rounded, and scaled back
RECURSIVE F32DivFloorNat(_, _, _, _)
F32DivFloorNat(num, den, e, up) ==
    IF num = 0 THEN 0
    ELSE IF num \div den >= 2 ^ 24 THEN F32DivFloorNat(num, 2 * den, e + 1, up)
    ELSE IF num \div den < 2 ^ 11 /\ e > -52
         THEN F32DivFloorNat((2 ^ 12) * num, den, e - 12, up)
    ELSE IF num \div den < 2 ^ 17 /\ e > -58
         THEN F32DivFloorNat((2 ^ 6) * num, den, e - 6, up)
    ELSE IF num \div den < 2 ^ 20 /\ e > -61
         THEN F32DivFloorNat((2 ^ 3) * num, den, e - 3, up)
    ELSE IF num \div den < 2 ^ 23 /\ e > -64 THEN F32DivFloorNat(2 * num, den, e - 1, up)
    ELSE LET m == RoundHalfEven(num, den)
         IN IF e >= 0 THEN m * (2 ^ e)
            ELSE IF up /\ m % (2 ^ (-e)) # 0 THEN m \div (2 ^ (-e)) + 1
            ELSE m \div (2 ^ (-e))

\* (a / d).floor() for f32 values a and d > 0 that are integers
F32DivFloor(a, d) ==
    IF a >= 0 THEN F32DivFloorNat(a, d, 0, FALSE)
    ELSE -F32DivFloorNat(-a, d, 0, TRUE)

\* (self.x as f32 * CELL_SIZE, self.y as f32 * CELL_SIZE)
to_world(p) == <<F32(F32(p.x) * CELL_SIZE), F32(F32(p.y) * CELL_SIZE)>>

\* slip: `as i32` alone, which truncates toward zero, without floor()
from_world_truncating(x, y) ==
    Pos(IF x >= 0 THEN F32DivFloor(x, CELL_SIZE) ELSE -F32DivFloor(-x, CELL_SIZE),
        IF y >= 0 THEN F32DivFloor(y, CELL_SIZE) ELSE -F32DivFloor(-y, CELL_SIZE))

\* (x / CELL_SIZE).floor() as i32
from_world(x, y) == Pos(F32DivFloor(x, CELL_SIZE), F32DivFloor(y, CELL_SIZE))

\* the centre of a cell: to_world() + CELL_SIZE / 2.0
CellCenter(p) ==
    <<F32(to_world(p)[1] + CELL_SIZE \div 2), F32(to_world(p)[2] + CELL_SIZE \div 2)>>

Dist2(x1, y1, x2, y2) == (x1 - x2) * (x1 - x2) + (y1 - y2) * (y1 - y2)

\* floor of the square root of dx*dx + dy*dy
Hypot(dx, dy) ==
    CHOOSE r \in (IF Abs(dx) > Abs(dy) THEN Abs(dx) ELSE Abs(dy)) .. (Abs(dx) + Abs(dy)) :
        r * r <= dx * dx + dy * dy /\ (r + 1) * (r + 1) > dx * dx + dy * dy

\* d / distance * move_distance, truncated toward zero
Along(d, distance, move_distance) ==
    IF d >= 0 THEN (d * move_distance) \div distance
    ELSE -(((-d) * move_distance) \div distance)

(***************************************************************************)
(* TowerType                                                               *)
(***************************************************************************)
TowerTypes == {"Basic", "Sniper", "Splash", "Slow"}

cost(t) ==
    CASE t = "Basic" -> 50 [] t = "Sniper" -> 100 [] t = "Splash" -> 75 [] t = "Slow" -> 60

\* range() in tenths of a cell
range10(t) ==
    CASE t = "Basic" -> 30 [] t = "Sniper" -> 60 [] t = "Splash" -> 25 [] t = "Slow" -> 35

damage(t) ==
    CASE t = "Basic" -> 10 [] t = "Sniper" -> 50 [] t = "Splash" -> 15 [] t = "Slow" -> 5

\* fire_rate() in tenths of a shot per second
fire_rate10(t) ==
    CASE t = "Basic" -> 10 [] t = "Sniper" -> 3 [] t = "Splash" -> 8 [] t = "Slow" -> 20

\* pixels per second
projectile_speed(t) ==
    CASE t = "Basic" -> 300 [] t = "Sniper" -> 600 [] t = "Splash" -> 200 [] t = "Slow" -> 250

\* splash_radius() in tenths of a cell
splash_radius10(t) == IF t = "Splash" THEN 15 ELSE 0

(***************************************************************************)
(* Tower.  target_id is an Option<u32>: << >> is None, <<id>> is Some(id). *)
(* The rotation is used by the rendering only and is left out.             *)
(***************************************************************************)
Tower_new(id, tower_type, position) ==
    [id |-> id, tower_type |-> tower_type, position |-> position,
     cooldown_remaining |-> 0, target_id |-> << >>]

can_shoot(tower) == tower.cooldown_remaining <= 0

Tower_update(tower, delta) ==
    IF tower.cooldown_remaining > 0
    THEN [tower EXCEPT !.cooldown_remaining = @ - delta]
    ELSE tower

\* slip: the cooldown is added to what is left, so that overdue time is banked
shoot_banking(tower) ==
    [tower EXCEPT !.cooldown_remaining = @ + 10000 \div fire_rate10(tower.tower_type)]

\* 1.0 / fire_rate, in milliseconds
shoot(tower) ==
    [tower EXCEPT !.cooldown_remaining = 10000 \div fire_rate10(tower.tower_type)]

world_position(tower) == CellCenter(tower.position)

(***************************************************************************)
(* Enemy                                                                   *)
(***************************************************************************)
\* Enemy::new for one value `path` of find_waypoints(grid, start, goal)
Enemy_new(id, start, path) ==
    [id |-> id, x |-> CellCenter(start)[1], y |-> CellCenter(start)[2],
     path |-> path, current_waypoint |-> 0, speed |-> 50,
     health |-> 100, max_health |-> 100,
     slow_duration |-> 0, slow_multiplier |-> 100]

\* slip: reaching a waypoint always reports the enemy as still moving
Enemy_update_never_arrives(self, delta) ==
    LET slowed ==
            IF self.slow_duration > 0
            THEN IF self.slow_duration - delta <= 0
                 THEN [self EXCEPT !.slow_duration = @ - delta, !.slow_multiplier = 100]
                 ELSE [self EXCEPT !.slow_duration = @ - delta]
            ELSE self
    IN IF slowed.current_waypoint >= Len(slowed.path)
       THEN [e |-> slowed, ret |-> FALSE]
       ELSE
         LET waypoint == slowed.path[slowed.current_waypoint + 1]
             target_x == CellCenter(waypoint)[1]
             target_y == CellCenter(waypoint)[2]
             dx == target_x - slowed.x
             dy == target_y - slowed.y
             \* speed * slow_multiplier * delta, in pixels
             move_distance == (slowed.speed * slowed.slow_multiplier * delta) \div 100000
         IN IF dx * dx + dy * dy < 2 * 2
            THEN [e |-> [slowed EXCEPT !.current_waypoint = @ + 1],
                  ret |-> TRUE]
            ELSE [e |-> [slowed EXCEPT
                           !.x = @ + Along(dx, Hypot(dx, dy), move_distance),
                           !.y = @ + Along(dy, Hypot(dx, dy), move_distance)],
                  ret |-> TRUE]

\* Enemy::update: [e |-> the enemy after the call, ret |-> its return value]
Enemy_update(self, delta) ==
    LET slowed ==
            IF self.slow_duration > 0
            THEN IF self.slow_duration - delta <= 0
                 THEN [self EXCEPT !.slow_duration = @ - delta, !.slow_multiplier = 100]
                 ELSE [self EXCEPT !.slow_duration = @ - delta]
            ELSE self
    IN IF slowed.current_waypoint >= Len(slowed.path)
       THEN [e |-> slowed, ret |-> FALSE]
       ELSE
         LET waypoint == slowed.path[slowed.current_waypoint + 1]
             target_x == CellCenter(waypoint)[1]
             target_y == CellCenter(waypoint)[2]
             dx == target_x - slowed.x
             dy == target_y - slowed.y
             \* speed * slow_multiplier * delta, in pixels
             move_distance == (slowed.speed * slowed.slow_multiplier * delta) \div 100000
         IN IF dx * dx + dy * dy < 2 * 2
            THEN [e |-> [slowed EXCEPT !.current_waypoint = @ + 1],
                  ret |-> slowed.current_waypoint + 1 < Len(slowed.path)]
            ELSE [e |-> [slowed EXCEPT
                           !.x = @ + Along(dx, Hypot(dx, dy), move_distance),
                           !.y = @ + Along(dy, Hypot(dx, dy), move_distance)],
                  ret |-> TRUE]

\* slip: the waypoint index is not reset with the new path
recalculate_path_keeps_index(enemy, grid, goal) ==
    { IF new_path # None
      THEN [enemy EXCEPT !.path = new_path]
      ELSE enemy
      : new_path \in find_waypoints(grid, from_world(enemy.x, enemy.y), goal) }

\* the values recalculate_path can leave the enemy with
recalculate_path(enemy, grid, goal) ==
    { IF new_path # None
      THEN [enemy EXCEPT !.path = new_path, !.current_waypoint = 0]
      ELSE enemy
      : new_path \in find_waypoints(grid, from_world(enemy.x, enemy.y), goal) }

\* take_damage without `.max(0.0)`
take_damage_unclamped(enemy, dmg) ==
    [enemy EXCEPT !.health = @ - dmg]

take_damage(enemy, dmg) ==
    [enemy EXCEPT !.health = IF @ - dmg > 0 THEN @ - dmg ELSE 0]

is_alive(enemy) == enemy.health > 0

\* slip: a slow in effect is left as it is
apply_slow_no_override(enemy, duration, multiplier) ==
    IF enemy.slow_duration > 0 THEN enemy
    ELSE [enemy EXCEPT !.slow_duration = duration, !.slow_multiplier = multiplier]

apply_slow(enemy, duration, multiplier) ==
    [enemy EXCEPT !.slow_duration = duration, !.slow_multiplier = multiplier]

(***************************************************************************)
(* Projectile and the transient effects (colours are left out)             *)
(***************************************************************************)
Projectile_new(id, tower_type, start_x, start_y, target_id, target_x, target_y) ==
    [id |-> id, tower_type |-> tower_type, x |-> start_x, y |-> start_y,
     target_id |-> target_id, target_x |-> target_x, target_y |-> target_y,
     damage |-> damage(tower_type), speed |-> projectile_speed(tower_type),
     lifetime |-> 5000]

\* Projectile::update; enemy_pos is << >> for None and <<x, y>> for Some.
\* The result is [p |-> the projectile after the call, ret |-> its return value].
Projectile_update(self, delta, enemy_pos) ==
    LET aimed == IF enemy_pos # << >>
                 THEN [self EXCEPT !.lifetime = @ - delta,
                                   !.target_x = enemy_pos[1], !.target_y = enemy_pos[2]]
                 ELSE [self EXCEPT !.lifetime = @ - delta]
        dx == aimed.target_x - aimed.x
        dy == aimed.target_y - aimed.y
        move_distance == (aimed.speed * delta) \div 1000
    IN IF dx * dx + dy * dy < 5 * 5 \/ aimed.lifetime <= 0
       THEN [p |-> aimed, ret |-> FALSE]
       ELSE IF move_distance * move_distance >= dx * dx + dy * dy
       THEN [p |-> [aimed EXCEPT !.x = aimed.target_x, !.y = aimed.target_y],
             ret |-> FALSE]
       ELSE [p |-> [aimed EXCEPT !.x = @ + Along(dx, Hypot(dx, dy), move_distance),
                                 !.y = @ + Along(dy, Hypot(dx, dy), move_distance)],
             ret |-> TRUE]

has_hit(self) ==
    Dist2(self.target_x, self.target_y, self.x, self.y) < 10 * 10

MuzzleFlash_new(x, y) == [x |-> x, y |-> y, lifetime |-> 100, max_lifetime |-> 100]

\* radius is the splash radius in tenths of a cell
ExplosionEffect_new(x, y, radius) ==
    [x |-> x, y |-> y, max_radius |-> (radius * CELL_SIZE) \div 10,
     lifetime |-> 300, max_lifetime |-> 300]

\* MuzzleFlash::update / ExplosionEffect::update with retain_mut: the effects
\* whose lifetime is still positive after delta, in order
RECURSIVE Effects_update(_, _)
Effects_update(effects, delta) ==
    IF effects = << >> THEN << >>
    ELSE (IF Head(effects).lifetime - delta > 0
          THEN << [Head(effects) EXCEPT !.lifetime = @ - delta] >>
          ELSE << >>) \o Effects_update(Tail(effects), delta)

(***************************************************************************)
(* GameState and Game.  towers, enemies and projectiles are the HashMaps,  *)
(* functions from the ids present to the records.                          *)
(***************************************************************************)
GameState_new ==
    [grid |-> Grid_new(GRID_WIDTH, GRID_HEIGHT),
     towers |-> << >>,
     enemies |-> << >>,
     spawn_point |-> Pos(0, GRID_HEIGHT \div 2),
     goal_point |-> Pos(GRID_WIDTH - 1, GRID_HEIGHT \div 2),
     next_tower_id |-> 0,
     next_enemy_id |-> 0,
     gold |-> 200,
     health |-> 20,
     paused |-> FALSE]

\* events is not a field of the source: it records, in order, what the last
\* update call that ran did (shots, projectile removals, calls of
\* apply_damage, damage, kills, leaks)
Game_new ==
    [state |-> GameState_new,
     projectiles |-> << >>,
     next_projectile_id |-> 0,
     muzzle_flashes |-> << >>,
     explosions |-> << >>,
     events |-> << >>]

\* HashMap remove
MapRemove(m, k) == [q \in (DOMAIN m) \ {k} |-> m[q]]

\* `for enemy in self.enemies.values_mut() { enemy.recalculate_path(..) }`:
\* the enemy maps the loop can end with, the enemies in ids still to do
RECURSIVE RecalculateAll(_, _, _, _)
RecalculateAll(enemies, ids, grid, goal) ==
    IF ids = {} THEN {enemies}
    ELSE LET id == CHOOSE q \in ids : TRUE
         IN UNION { RecalculateAll(MapPut(enemies, id, e), ids \ {id}, grid, goal)
                    : e \in recalculate_path(enemies[id], grid, goal) }

\* place_tower with the gold taken before the cell is looked at
place_tower_pay_first(st, tower_type, position) ==
    IF st.gold < cost(tower_type)
    THEN {[state |-> st, ret |-> FALSE]}
    ELSE IF ~is_walkable(st.grid, position)
    THEN {[state |-> [st EXCEPT !.gold = @ - cost(tower_type)], ret |-> FALSE]}
    ELSE LET tower == Tower_new(st.next_tower_id, tower_type, position)
             grid == set_walkable(st.grid, position, FALSE)
         IN { [state |-> [st EXCEPT !.towers = MapPut(@, st.next_tower_id, tower),
                                    !.next_tower_id = @ + 1,
                                    !.gold = @ - cost(tower_type),
                                    !.grid = grid,
                                    !.enemies = enemies],
               ret |-> TRUE]
              : enemies \in RecalculateAll(st.enemies, DOMAIN st.enemies, grid,
                                           st.goal_point) }

\* place_tower without `self.grid.set_walkable(position, false)`
place_tower_no_block(st, tower_type, position) ==
    IF st.gold < cost(tower_type)
    THEN {[state |-> st, ret |-> FALSE]}
    ELSE IF ~is_walkable(st.grid, position)
    THEN {[state |-> st, ret |-> FALSE]}
    ELSE LET tower == Tower_new(st.next_tower_id, tower_type, position)
         IN { [state |-> [st EXCEPT !.towers = MapPut(@, st.next_tower_id, tower),
                                    !.next_tower_id = @ + 1,
                                    !.gold = @ - cost(tower_type),
                                    !.enemies = enemies],
               ret |-> TRUE]
              : enemies \in RecalculateAll(st.enemies, DOMAIN st.enemies, st.grid,
                                           st.goal_point) }

\* place_tower: the set of [state, ret] it can end in
place_tower(st, tower_type, position) ==
    IF st.gold < cost(tower_type)
    THEN {[state |-> st, ret |-> FALSE]}
    ELSE IF ~is_walkable(st.grid, position)
    THEN {[state |-> st, ret |-> FALSE]}
    ELSE LET tower == Tower_new(st.next_tower_id, tower_type, position)
             grid == set_walkable(st.grid, position, FALSE)
         IN { [state |-> [st EXCEPT !.towers = MapPut(@, st.next_tower_id, tower),
                                    !.next_tower_id = @ + 1,
                                    !.gold = @ - cost(tower_type),
                                    !.grid = grid,
                                    !.enemies = enemies],
               ret |-> TRUE]
              : enemies \in RecalculateAll(st.enemies, DOMAIN st.enemies, grid,
                                           st.goal_point) }

\* spawn_enemy with the id taken before the path is looked for
spawn_enemy_consumes_id(st) ==
    { IF path # None
      THEN [state |-> [st EXCEPT
                         !.enemies = MapPut(@, st.next_enemy_id,
                                        Enemy_new(st.next_enemy_id, st.spawn_point, path)),
                         !.next_enemy_id = @ + 1],
            ret |-> TRUE]
      ELSE [state |-> [st EXCEPT !.next_enemy_id = @ + 1], ret |-> FALSE]
      : path \in find_waypoints(st.grid, st.spawn_point, st.goal_point) }

\* spawn_enemy: the set of [state, ret] it can end in
spawn_enemy(st) ==
    { IF path # None
      THEN [state |-> [st EXCEPT
                         !.enemies = MapPut(@, st.next_enemy_id,
                                        Enemy_new(st.next_enemy_id, st.spawn_point, path)),
                         !.next_enemy_id = @ + 1],
            ret |-> TRUE]
      ELSE [state |-> st, ret |-> FALSE]
      : path \in find_waypoints(st.grid, st.spawn_point, st.goal_point) }

RECURSIVE ClearCells(_, _)
ClearCells(grid, cells) ==
    IF cells = {} THEN grid
    ELSE LET c == CHOOSE q \in cells : TRUE
         IN ClearCells(set_walkable(grid, c, TRUE), cells \ {c})

\* slip: clear_all also starts the enemy ids again
clear_all_resets_ids(st) ==
    [st EXCEPT !.grid = ClearCells(@, { st.towers[id].position : id \in DOMAIN st.towers }),
               !.towers = << >>,
               !.enemies = << >>,
               !.next_enemy_id = 0]

\* clear_all without the loop that makes the towers' cells walkable again
clear_all_keep_grid(st) ==
    [st EXCEPT !.towers = << >>, !.enemies = << >>]

clear_all(st) ==
    [st EXCEPT !.grid = ClearCells(@, { st.towers[id].position : id \in DOMAIN st.towers }),
               !.towers = << >>,
               !.enemies = << >>]

(***************************************************************************)
(* Game::update and its phases.  A phase that iterates a HashMap yields    *)
(* the set of games it can end in, one for each iteration order.           *)
(***************************************************************************)
Log(g, e) == [g EXCEPT !.events = Append(@, e)]

\* slip: the filter on the distance is missing
find_target_any_range(g, tower_x, tower_y, tower_type) ==
    LET in_range == { id \in DOMAIN g.state.enemies : is_alive(g.state.enemies[id]) }
    IN { id \in in_range :
           \A other \in in_range :
              g.state.enemies[id].current_waypoint
                 >= g.state.enemies[other].current_waypoint }

\* find_target_for_tower_at: the ids of the enemies max_by can return
\* (the empty set stands for None)
find_target_for_tower_at(g, tower_x, tower_y, tower_type) ==
    LET range == (range10(tower_type) * CELL_SIZE) \div 10
        in_range == { id \in DOMAIN g.state.enemies :
                        /\ Dist2(g.state.enemies[id].x, g.state.enemies[id].y,
                                 tower_x, tower_y) <= range * range
                        /\ is_alive(g.state.enemies[id]) }
    IN { id \in in_range :
           \A other \in in_range :
              g.state.enemies[id].current_waypoint
                 >= g.state.enemies[other].current_waypoint }

\* slip: the target is not cleared when none is found
FireAt_keeps_target(g, tower_id, target) ==
    LET tower == g.state.towers[tower_id]
        tower_x == world_position(tower)[1]
        tower_y == world_position(tower)[2]
    IN IF target = << >>
       THEN g
       ELSE LET enemy == g.state.enemies[target[1]]
                projectile == Projectile_new(g.next_projectile_id, tower.tower_type,
                                  tower_x, tower_y, enemy.id, enemy.x, enemy.y)
            IN Log([g EXCEPT
                      !.state.towers[tower_id] = shoot([@ EXCEPT !.target_id = <<enemy.id>>]),
                      !.projectiles = MapPut(@, g.next_projectile_id, projectile),
                      !.next_projectile_id = @ + 1,
                      !.muzzle_flashes = Append(@, MuzzleFlash_new(tower_x, tower_y))],
                   [kind |-> "fire", tower |-> tower_id, target |-> enemy.id,
                    projectile |-> g.next_projectile_id,
                    target_id |-> projectile.target_id,
                    damage |-> projectile.damage, speed |-> projectile.speed])

\* one iteration of `for (tower_id, ..., can_shoot) in tower_data` for a tower
\* that can shoot, with the target found: << >> for None, <<id>> for Some
FireAt(g, tower_id, target) ==
    LET tower == g.state.towers[tower_id]
        tower_x == world_position(tower)[1]
        tower_y == world_position(tower)[2]
    IN IF target = << >>
       THEN [g EXCEPT !.state.towers[tower_id].target_id = << >>]
       ELSE LET enemy == g.state.enemies[target[1]]
                projectile == Projectile_new(g.next_projectile_id, tower.tower_type,
                                  tower_x, tower_y, enemy.id, enemy.x, enemy.y)
            IN Log([g EXCEPT
                      !.state.towers[tower_id] = shoot([@ EXCEPT !.target_id = <<enemy.id>>]),
                      !.projectiles = MapPut(@, g.next_projectile_id, projectile),
                      !.next_projectile_id = @ + 1,
                      !.muzzle_flashes = Append(@, MuzzleFlash_new(tower_x, tower_y))],
                   [kind |-> "fire", tower |-> tower_id, target |-> enemy.id,
                    projectile |-> g.next_projectile_id,
                    target_id |-> projectile.target_id,
                    damage |-> projectile.damage, speed |-> projectile.speed])

\* the loop over tower_data, the towers in ids still to visit
RECURSIVE FireLoop(_, _)
FireLoop(g, ids) ==
    IF ids = {} THEN {g}
    ELSE UNION {
        LET tower == g.state.towers[id]
            targets == find_target_for_tower_at(g, world_position(tower)[1],
                           world_position(tower)[2], tower.tower_type)
        IN IF targets = {}
           THEN FireLoop(FireAt(g, id, << >>), ids \ {id})
           ELSE UNION { FireLoop(FireAt(g, id, <<t>>), ids \ {id}) : t \in targets }
        : id \in ids }

update_towers(g, delta) ==
    LET shooters == { id \in DOMAIN g.state.towers : can_shoot(g.state.towers[id]) }
        cooled == [g EXCEPT !.state.towers =
                      [id \in DOMAIN @ |-> Tower_update(@[id], delta)]]
    IN FireLoop(cooled, shooters)

\* slip: the filter on the distance is missing
SplashVictims_unfiltered(g, tower_type, hit_x, hit_y) ==
    DOMAIN g.state.enemies

\* the enemies a Splash hit at (hit_x, hit_y) damages
SplashVictims(g, tower_type, hit_x, hit_y) ==
    LET splash_radius == (splash_radius10(tower_type) * CELL_SIZE) \div 10
    IN { id \in DOMAIN g.state.enemies :
           Dist2(g.state.enemies[id].x, g.state.enemies[id].y, hit_x, hit_y)
              <= splash_radius * splash_radius }

\* enemy.take_damage(damage) on the enemies in ids (and apply_slow when slow)
RECURSIVE DamageAll(_, _, _, _)
DamageAll(g, ids, hit, slow) ==
    IF ids = {} THEN g
    ELSE LET id == CHOOSE q \in ids : TRUE
             before == g.state.enemies[id]
             hurt == take_damage(before, hit.damage)
             after == IF slow THEN apply_slow(hurt, 2000, 50) ELSE hurt
         IN DamageAll(Log([g EXCEPT !.state.enemies[id] = after],
                          [kind |-> "damage", enemy |-> id, projectile |-> hit.projectile,
                           tower_type |-> hit.tower_type, amount |-> hit.damage,
                           before |-> before.health, after |-> after.health]),
                      ids \ {id}, hit, slow)

\* "Remove dead enemies": each is removed and rewarded with 10 gold
RECURSIVE RemoveDead(_, _)
RemoveDead(g, ids) ==
    IF ids = {} THEN g
    ELSE LET id == CHOOSE q \in ids : TRUE
         IN RemoveDead(Log([g EXCEPT !.state.enemies = MapRemove(@, id),
                                     !.state.gold = @ + 10],
                           [kind |-> "kill", enemy |-> id]),
                       ids \ {id})

\* slip: the dead are not swept at the end of the call
apply_damage_no_sweep(g, hit) ==
    LET present == IF hit.enemy_id \in DOMAIN g.state.enemies THEN {hit.enemy_id} ELSE {}
        called == Log(g, [kind |-> "hit", projectile |-> hit.projectile,
                          enemy |-> hit.enemy_id, tower_type |-> hit.tower_type,
                          amount |-> hit.damage,
                          hit_x |-> hit.hit_x, hit_y |-> hit.hit_y])
    IN DamageAll(called, present, hit, FALSE)

\* slip: a Splash hit whose target is gone damages nothing
apply_damage_splash_needs_target(g, hit) ==
    LET present == IF hit.enemy_id \in DOMAIN g.state.enemies THEN {hit.enemy_id} ELSE {}
        called == Log(g, [kind |-> "hit", projectile |-> hit.projectile,
                          enemy |-> hit.enemy_id, tower_type |-> hit.tower_type,
                          amount |-> hit.damage,
                          hit_x |-> hit.hit_x, hit_y |-> hit.hit_y])
        damaged ==
            CASE hit.tower_type = "Splash" /\ present # {} ->
                   [DamageAll(called,
                              SplashVictims(called, hit.tower_type, hit.hit_x, hit.hit_y),
                              hit, FALSE)
                    EXCEPT !.explosions =
                       Append(@, ExplosionEffect_new(hit.hit_x, hit.hit_y,
                                     splash_radius10(hit.tower_type)))]
              [] hit.tower_type = "Slow" -> DamageAll(called, present, hit, TRUE)
              [] OTHER -> DamageAll(called, present, hit, FALSE)
    IN RemoveDead(damaged, { id \in DOMAIN damaged.state.enemies :
                               ~is_alive(damaged.state.enemies[id]) })

\* hit = [enemy_id, damage, tower_type, hit_x, hit_y] and, for the record,
\* the projectile it comes from
apply_damage(g, hit) ==
    LET present == IF hit.enemy_id \in DOMAIN g.state.enemies THEN {hit.enemy_id} ELSE {}
        called == Log(g, [kind |-> "hit", projectile |-> hit.projectile,
                          enemy |-> hit.enemy_id, tower_type |-> hit.tower_type,
                          amount |-> hit.damage,
                          hit_x |-> hit.hit_x, hit_y |-> hit.hit_y])
        damaged ==
            CASE hit.tower_type = "Splash" ->
                   [DamageAll(called,
                              SplashVictims(called, hit.tower_type, hit.hit_x, hit.hit_y),
                              hit, FALSE)
                    EXCEPT !.explosions =
                       Append(@, ExplosionEffect_new(hit.hit_x, hit.hit_y,
                                     splash_radius10(hit.tower_type)))]
              [] hit.tower_type = "Slow" -> DamageAll(called, present, hit, TRUE)
              [] OTHER -> DamageAll(called, present, hit, FALSE)
    IN RemoveDead(damaged, { id \in DOMAIN damaged.state.enemies :
                               ~is_alive(damaged.state.enemies[id]) })

\* `for (enemy_id, ...) in hits { self.apply_damage(..) }`: hits maps the
\* projectiles that recorded a hit to their hits; they are applied in the
\* order the projectiles were iterated in
RECURSIVE ApplyHits(_, _)
ApplyHits(g, hits) ==
    IF DOMAIN hits = {} THEN {g}
    ELSE UNION { ApplyHits(apply_damage(g, hits[id]), MapRemove(hits, id))
                 : id \in DOMAIN hits }

\* slip: a finished projectile whose target is gone records a hit at its
\* aim point
update_projectiles_orphans_hit(g, delta) ==
    LET enemies == g.state.enemies
        EnemyPos(p) == IF p.target_id \in DOMAIN enemies
                       THEN <<enemies[p.target_id].x, enemies[p.target_id].y>>
                       ELSE << >>
        updated == [id \in DOMAIN g.projectiles |->
                      Projectile_update(g.projectiles[id], delta,
                                        EnemyPos(g.projectiles[id]))]
        finished == { id \in DOMAIN updated :
                        ~updated[id].ret \/ has_hit(updated[id].p) }
        hits == [id \in finished |->
                   [enemy_id |-> updated[id].p.target_id,
                    damage |-> updated[id].p.damage,
                    tower_type |-> updated[id].p.tower_type,
                    hit_x |-> updated[id].p.target_x,
                    hit_y |-> updated[id].p.target_y,
                    projectile |-> id]]
        RECURSIVE LogRemovals(_, _)
        LogRemovals(h, ids) ==
            IF ids = {} THEN h
            ELSE LET id == CHOOSE q \in ids : TRUE
                     p == updated[id].p
                 IN LogRemovals(
                        Log(h, [kind |-> "remove_projectile", projectile |-> id,
                                target |-> p.target_id,
                                expired |-> p.lifetime <= 0,
                                dist2 |-> Dist2(p.target_x, p.target_y, p.x, p.y),
                                hit |-> id \in DOMAIN hits]),
                        ids \ {id})
        moved == [g EXCEPT !.projectiles =
                     [id \in (DOMAIN updated) \ finished |-> updated[id].p]]
    IN ApplyHits(LogRemovals(moved, finished), hits)

update_projectiles(g, delta) ==
    LET enemies == g.state.enemies
        EnemyPos(p) == IF p.target_id \in DOMAIN enemies
                       THEN <<enemies[p.target_id].x, enemies[p.target_id].y>>
                       ELSE << >>
        updated == [id \in DOMAIN g.projectiles |->
                      Projectile_update(g.projectiles[id], delta,
                                        EnemyPos(g.projectiles[id]))]
        finished == { id \in DOMAIN updated :
                        ~updated[id].ret \/ has_hit(updated[id].p) }
        hits == [id \in { q \in finished : updated[q].p.target_id \in DOMAIN enemies } |->
                   [enemy_id |-> updated[id].p.target_id,
                    damage |-> updated[id].p.damage,
                    tower_type |-> updated[id].p.tower_type,
                    hit_x |-> enemies[updated[id].p.target_id].x,
                    hit_y |-> enemies[updated[id].p.target_id].y,
                    projectile |-> id]]
        RECURSIVE LogRemovals(_, _)
        LogRemovals(h, ids) ==
            IF ids = {} THEN h
            ELSE LET id == CHOOSE q \in ids : TRUE
                     p == updated[id].p
                 IN LogRemovals(
                        Log(h, [kind |-> "remove_projectile", projectile |-> id,
                                target |-> p.target_id,
                                expired |-> p.lifetime <= 0,
                                dist2 |-> Dist2(p.target_x, p.target_y, p.x, p.y),
                                hit |-> id \in DOMAIN hits]),
                        ids \ {id})
        moved == [g EXCEPT !.projectiles =
                     [id \in (DOMAIN updated) \ finished |-> updated[id].p]]
    IN ApplyHits(LogRemovals(moved, finished), hits)

\* slip: an enemy that reached the goal costs base health but stays
RECURSIVE MoveEnemies_keeps_leaked(_, _, _)
MoveEnemies_keeps_leaked(g, ids, delta) ==
    IF ids = {} THEN g
    ELSE LET id == CHOOSE q \in ids : TRUE
             r == Enemy_update(g.state.enemies[id], delta)
         IN IF r.ret
            THEN MoveEnemies_keeps_leaked([g EXCEPT !.state.enemies[id] = r.e],
                                          ids \ {id}, delta)
            ELSE MoveEnemies_keeps_leaked(
                     Log([g EXCEPT !.state.enemies[id] = r.e,
                                   !.state.health = @ - 1],
                         [kind |-> "leak", enemy |-> id]),
                     ids \ {id}, delta)

\* the loop of update_enemies, the enemies in ids still to visit; `visited`
\* is the game after the visit of one enemy, a value computed once before
\* the rest of the loop runs on it
RECURSIVE MoveEnemies(_, _, _)
MoveEnemies(g, ids, delta) ==
    IF ids = {} THEN g
    ELSE LET id == CHOOSE q \in ids : TRUE
             r == Enemy_update(g.state.enemies[id], delta)
             visited == IF r.ret
                        THEN [g EXCEPT !.state.enemies[id] = r.e]
                        ELSE Log([g EXCEPT !.state.enemies = MapRemove(@, id),
                                           !.state.health = @ - 1],
                                 [kind |-> "leak", enemy |-> id])
         IN CHOOSE out \in { MoveEnemies(h, ids \ {id}, delta) : h \in {visited} } : TRUE

update_enemies(g, delta) == MoveEnemies(g, DOMAIN g.state.enemies, delta)

update_effects(g, delta) ==
    [g EXCEPT !.muzzle_flashes = Effects_update(@, delta),
              !.explosions = Effects_update(@, delta)]

\* slip: the enemies are moved before the projectiles are advanced
update_enemies_first(g, delta) ==
    IF g.state.paused THEN {g}
    ELSE { update_effects(g2, delta) :
             g2 \in UNION { update_projectiles(update_enemies(g1, delta), delta) :
                              g1 \in update_towers([g EXCEPT !.events = << >>], delta) } }

\* slip: the test of the paused flag is missing
update_ignores_pause(g, delta) ==
    { update_effects(update_enemies(g2, delta), delta) :
        g2 \in UNION { update_projectiles(g1, delta) :
                         g1 \in update_towers([g EXCEPT !.events = << >>], delta) } }

\* Game::update: the set of games it can end in
update(g, delta) ==
    IF g.state.paused THEN {g}
    ELSE { update_effects(update_enemies(g2, delta), delta) :
             g2 \in UNION { update_projectiles(g1, delta) :
                              g1 \in update_towers([g EXCEPT !.events = << >>], delta) } }

(***************************************************************************)
(* Specification of the pathfinder: a grid is built with set_walkable and  *)
(* find_path / find_waypoints are called on it.                            *)
(***************************************************************************)
NoOp == [op |-> "new"]

NoHist == [ticks |-> 0, spent |-> 0, kills |-> << >>, leaks |-> << >>, cleared |-> << >>]

PathCells == { Pos(x, y) : x \in 0 .. PathWidth - 1, y \in 0 .. PathHeight - 1 }

\* positions handed to the pathfinder: every cell and two out-of-bounds ones
PathInputs == PathCells \cup { Pos(-1, 0), Pos(PathWidth, PathHeight - 1) }

NoCall == [fn |-> "none"]

PInit ==
    /\ pgrid = Grid_new(PathWidth, PathHeight)
    /\ pcall = NoCall
    /\ game = Game_new
    /\ last = NoOp
    /\ hist = NoHist

PSetWalkable ==
    /\ pcall = NoCall
    /\ \E pos \in PathCells :
        /\ pos \notin DOMAIN pgrid.walkable
        /\ Cardinality(DOMAIN pgrid.walkable) < MaxSets
        /\ pgrid' = set_walkable(pgrid, pos, FALSE)
        /\ pcall' = NoCall
        /\ UNCHANGED gvars

PFindPath ==
    /\ pcall = NoCall
    /\ \E start \in PathInputs, goal \in PathInputs :
        \E result \in find_path(pgrid, start, goal) :
            /\ pcall' = [fn |-> "find_path", start |-> start, goal |-> goal,
                         result |-> result, full |-> result]
            /\ UNCHANGED <<pgrid, gvars>>

PFindWaypoints ==
    /\ pcall = NoCall
    /\ \E start \in PathInputs, goal \in PathInputs :
        \E full_path \in find_path(pgrid, start, goal) :
            /\ pcall' = [fn |-> "find_waypoints", start |-> start, goal |-> goal,
                         result |-> simplify(full_path), full |-> full_path]
            /\ UNCHANGED <<pgrid, gvars>>

\* the caller takes the result; the next call can be made
PReturn ==
    /\ pcall # NoCall
    /\ pcall' = NoCall
    /\ UNCHANGED <<pgrid, gvars>>

PNext == PSetWalkable \/ PFindPath \/ PFindWaypoints \/ PReturn

SpecPath == PInit /\ [][PNext]_vars

(***************************************************************************)
(* Specification of the grid alone: set_walkable is called with any flag   *)
(* on any cell and on two positions out of bounds.  pcall records the call *)
(* and the grid before it.                                                 *)
(***************************************************************************)
GInit ==
    /\ pgrid = Grid_new(PathWidth, PathHeight)
    /\ pcall = [fn |-> "new", n |-> 0]
    /\ game = Game_new
    /\ last = NoOp
    /\ hist = NoHist

GSetWalkable ==
    /\ pcall.n < MaxSets
    /\ \E pos \in PathInputs, walkable \in BOOLEAN :
        /\ pgrid' = set_walkable(pgrid, pos, walkable)
        /\ pcall' = [fn |-> "set_walkable", n |-> pcall.n + 1, pos |-> pos,
                     walkable |-> walkable, before |-> pgrid]
    /\ UNCHANGED gvars

SpecGrid == GInit /\ [][GSetWalkable]_vars

(***************************************************************************)
(* Specification of the search loop of find_path, one pop of the open set  *)
(* at a time, from the corner (0, 0) of a grid built with set_walkable.    *)
(***************************************************************************)
\* find_path(pgrid, (0, 0), goal) up to its loop
SStart ==
    /\ pcall = NoCall
    /\ \E goal \in PathCells :
          /\ is_walkable(pgrid, Pos(0, 0))
          /\ is_walkable(pgrid, goal)
          /\ pcall' = [fn |-> "search", goal |-> goal,
                       s |-> [open_set |-> {Node_new(Pos(0, 0), 0,
                                               heuristic(Pos(0, 0), goal), << >>)},
                              closed_set |-> {},
                              came_from |-> << >>,
                              g_scores |-> MapPut(<< >>, Pos(0, 0), 0)],
                       queued |-> {}, popped |-> << >>]
    /\ UNCHANGED <<pgrid, gvars>>

\* one iteration of the loop: queued is the open set before the pop and
\* popped the node the heap returned
SPop ==
    /\ pcall.fn = "search"
    /\ pcall.s.open_set # {}
    /\ \E current \in HeapTop(pcall.s.open_set) :
          pcall' = IF current.position = pcall.goal
                   THEN [fn |-> "found", goal |-> pcall.goal, s |-> pcall.s,
                         queued |-> pcall.s.open_set, popped |-> <<current>>]
                   ELSE [pcall EXCEPT !.s = PopStep(pgrid, pcall.goal, pcall.s, current),
                                      !.queued = pcall.s.open_set,
                                      !.popped = <<current>>]
    /\ UNCHANGED <<pgrid, gvars>>

\* the open set is empty: no path
SFail ==
    /\ pcall.fn = "search"
    /\ pcall.s.open_set = {}
    /\ pcall' = NoCall
    /\ UNCHANGED <<pgrid, gvars>>

SNext == PSetWalkable \/ SStart \/ SPop \/ SFail \/ PReturn

SpecSearch == PInit /\ [][SNext]_vars

(***************************************************************************)
(* Specification of the coordinate conversion: a position is converted to  *)
(* world coordinates, of the corner of its cell or of its centre, and back.*)
(***************************************************************************)
\* small coordinates, and coordinates near the limits of what an f32 holds
MaxCoord == 2

CoordInputs ==
    (-MaxCoord .. MaxCoord)
       \cup { v : v \in {2 ^ 19 + 1, 2 ^ 20 - 1, 2 ^ 20, 2 ^ 24 + 1} }
       \cup { -v : v \in {2 ^ 19 + 1, 2 ^ 20 - 1, 2 ^ 20, 2 ^ 24 + 1} }

CInit ==
    /\ pcall \in { [fn |-> "position", p |-> Pos(x, y)] : x \in CoordInputs, y \in CoordInputs }
    /\ pgrid = Grid_new(PathWidth, PathHeight)
    /\ game = Game_new
    /\ last = NoOp
    /\ hist = NoHist

CToWorld ==
    /\ pcall.fn = "position"
    /\ \E centre \in BOOLEAN :
          pcall' = [fn |-> "to_world", p |-> pcall.p, centre |-> centre,
                    w |-> IF centre THEN CellCenter(pcall.p) ELSE to_world(pcall.p)]
    /\ UNCHANGED <<pgrid, gvars>>

CFromWorld ==
    /\ pcall.fn = "to_world"
    /\ pcall' = [fn |-> "from_world", p |-> pcall.p, centre |-> pcall.centre,
                 w |-> pcall.w, q |-> from_world(pcall.w[1], pcall.w[2])]
    /\ UNCHANGED <<pgrid, gvars>>

CNext == CToWorld \/ CFromWorld

SpecCoord == CInit /\ [][CNext]_vars

(***************************************************************************)
(* Specifications of the game: the operations of GameState and Game are    *)
(* called in any order from Game::new(), with inputs from small sets.      *)
(***************************************************************************)
\* the cells of column 1, which lies between spawn_point and goal_point, and
\* one position out of bounds
Column1 == { Pos(1, y) : y \in 0 .. GRID_HEIGHT - 1 }
OutOfBounds == Pos(-1, 0)

\* hist counts, for each enemy id, how often it was killed, leaked or cleared
Bump(m, ids) ==
    [id \in (DOMAIN m) \cup ids |->
        (IF id \in DOMAIN m THEN m[id] ELSE 0) + (IF id \in ids THEN 1 ELSE 0)]

RECURSIVE BumpSeq(_, _)
BumpSeq(m, ids) ==
    IF ids = << >> THEN m ELSE BumpSeq(Bump(m, {Head(ids)}), Tail(ids))

\* the enemies of the events of a kind in the log of a tick, in order
RECURSIVE EventEnemies(_, _)
EventEnemies(events, kind) ==
    IF events = << >> THEN << >>
    ELSE (IF Head(events).kind = kind THEN <<Head(events).enemy>> ELSE << >>)
            \o EventEnemies(Tail(events), kind)

Init ==
    /\ game = Game_new
    /\ last = NoOp
    /\ hist = NoHist
    /\ pgrid = Grid_new(PathWidth, PathHeight)
    /\ pcall = NoCall

\* place_tower(tower_type, position) for a type and a position of the sets
PlaceTower(types, positions) ==
    /\ \E tower_type \in types, position \in positions :
         \E r \in place_tower(game.state, tower_type, position) :
            /\ game' = [game EXCEPT !.state = r.state]
            /\ last' = [op |-> "place_tower", tower_type |-> tower_type,
                        position |-> position, ret |-> r.ret]
            /\ hist' = [hist EXCEPT !.spent = IF r.ret THEN @ + cost(tower_type) ELSE @]
    /\ UNCHANGED pvars

\* spawn_enemy() while fewer than cap enemies have been spawned
Spawn(cap) ==
    /\ game.state.next_enemy_id < cap
    /\ \E r \in spawn_enemy(game.state) :
            /\ game' = [game EXCEPT !.state = r.state]
            /\ last' = [op |-> "spawn_enemy", ret |-> r.ret]
            /\ UNCHANGED hist
    /\ UNCHANGED pvars

SpawnEnemy == Spawn(MaxEnemies)

ClearAll ==
    /\ game' = [game EXCEPT !.state = clear_all(game.state)]
    /\ last' = [op |-> "clear_all"]
    /\ hist' = [hist EXCEPT !.cleared = Bump(@, DOMAIN game.state.enemies)]
    /\ UNCHANGED pvars

\* main: game.state.paused = !game.state.paused
TogglePause ==
    /\ game' = [game EXCEPT !.state.paused = ~@]
    /\ last' = [op |-> "toggle_paused"]
    /\ UNCHANGED <<hist, pvars>>

\* update(delta) for a frame time of the set, in milliseconds
Tick(deltas) ==
    /\ hist.ticks < MaxTicks
    /\ \E delta \in deltas :
         \E g \in update(game, delta) :
            /\ game' = g
            /\ last' = [op |-> "update", delta |-> delta, ran |-> ~game.state.paused]
            /\ hist' = IF game.state.paused
                       THEN [hist EXCEPT !.ticks = @ + 1]
                       ELSE [hist EXCEPT !.ticks = @ + 1,
                                !.kills = BumpSeq(@, EventEnemies(g.events, "kill")),
                                !.leaks = BumpSeq(@, EventEnemies(g.events, "leak"))]

Update(deltas) ==
    /\ Tick(deltas)
    /\ UNCHANGED pvars

\* Building: towers are placed in column 1, on the spawn point or out of
\* bounds, enemies are spawned, everything is cleared, and the game ticks.
\* The gold pays for two towers of these types.
Next ==
    \/ PlaceTower({"Sniper", "Splash"}, Column1 \cup {GameState_new.spawn_point, OutOfBounds})
    \/ SpawnEnemy
    \/ ClearAll
    \/ Update({800})

Spec == Init /\ [][Next]_vars

\* Combat: Sniper and Basic towers are placed on two cells next to the spawn
\* point; the frame time is a normal one or one as long as a projectile's
\* lifetime.
NextCombat ==
    \/ PlaceTower({"Sniper", "Basic"}, {Pos(1, 0), Pos(1, 1)})
    \/ SpawnEnemy
    \/ Update({800, 5000})

SpecCombat == Init /\ [][NextCombat]_vars

\* A wave: one Splash or Basic tower next to the spawn point and one more
\* enemy than elsewhere; a frame of 1600 ms takes an enemy across two cells,
\* one of 50 ms leaves a projectile in flight.
NextWave ==
    \/ PlaceTower({"Splash", "Basic"}, {Pos(1, 0)})
    \/ Spawn(MaxEnemies + 1)
    \/ Update({50, 800, 1600})

SpecWave == Init /\ [][NextWave]_vars

\* Pausing: the game is paused and resumed between short frames, in which a
\* projectile stays in flight and a muzzle flash stays visible.
NextPause ==
    \/ PlaceTower({"Basic"}, {Pos(1, 0)})
    \/ Spawn(MaxEnemies)
    \/ TogglePause
    \/ Update({50})

SpecPause == Init /\ [][NextPause]_vars

\* Rerouting: towers are placed in column 1 while enemies walk through it; a
\* tower placed on the cell an enemy is in leaves that enemy without a route.
NextReroute ==
    \/ PlaceTower({"Basic"}, Column1)
    \/ Spawn(MaxEnemies)
    \/ Update({800})

SpecReroute == Init /\ [][NextReroute]_vars

\* Phases: two Sniper towers kill an enemy in one tick; a frame of 1600 ms
\* takes it to the goal, one of 50 ms leaves the effects visible.
NextPhases ==
    \/ PlaceTower({"Sniper"}, {Pos(1, 0), Pos(1, 1)})
    \/ Spawn(MaxEnemies)
    \/ Update({50, 800, 1600})

SpecPhases == Init /\ [][NextPhases]_vars

\* The lane: a game on a 6x2 grid with the spawn point at (0, 1) and the goal
\* at (5, 1).  A Basic tower at (1, 0) has the first cells of the lane in its
\* range of 120 pixels, one at (5, 0) does not.  The frame time is the
\* cooldown of a Basic tower, or one that takes an enemy from the spawn point
\* to the goal.
Lane_new ==
    [Game_new EXCEPT !.state.grid = Grid_new(6, 2),
                     !.state.spawn_point = Pos(0, 1),
                     !.state.goal_point = Pos(5, 1)]

InitLane ==
    /\ game = Lane_new
    /\ last = NoOp
    /\ hist = NoHist
    /\ pgrid = Grid_new(PathWidth, PathHeight)
    /\ pcall = NoCall

NextLane ==
    \/ PlaceTower({"Basic"}, {Pos(1, 0), Pos(5, 0)})
    \/ Spawn(MaxEnemies + 1)
    \/ Update({1000, 4000})

SpecLane == InitLane /\ [][NextLane]_vars

\* The clock: one Basic tower, paused and unpaused frames of half its
\* cooldown or five times its cooldown.  pcall is not a field of the source:
\* since maps a tower that has fired to the time of the ticks that ran after
\* its last shot, gap to that time between its last two shots.
NoClock == [fn |-> "clock", since |-> << >>, gap |-> << >>]

InitClock ==
    /\ game = Game_new
    /\ last = NoOp
    /\ hist = NoHist
    /\ pgrid = Grid_new(PathWidth, PathHeight)
    /\ pcall = NoClock

\* the towers of the shots in the log of a tick
Shooters(events) == { events[i].tower : i \in { j \in DOMAIN events : events[j].kind = "fire" } }

TimedUpdate(deltas) ==
    /\ Tick(deltas)
    /\ pgrid' = pgrid
    /\ pcall' =
         IF ~last'.ran THEN pcall
         ELSE LET fired == Shooters(game'.events)
                  known == DOMAIN pcall.since
              IN [pcall EXCEPT
                    !.since = [id \in known \cup fired |->
                                 IF id \in fired THEN 0 ELSE pcall.since[id] + last'.delta],
                    !.gap = [id \in (DOMAIN pcall.gap) \cup (known \cap fired) |->
                                 IF id \in fired THEN pcall.since[id] ELSE pcall.gap[id]]]

NextClock ==
    \/ PlaceTower({"Basic"}, {Pos(1, 0)})
    \/ Spawn(MaxEnemies + 1)
    \/ TogglePause
    \/ TimedUpdate({500, 5000})

SpecClock == InitClock /\ [][NextClock]_vars

\* Orphans: a Splash tower fires in a short frame, which leaves its
\* projectile in flight; clear_all removes the target and the tower, and a
\* new enemy is spawned at the spawn point, where the projectile is aimed.
\* The longest frame is a projectile's lifetime.
NextOrphan ==
    \/ PlaceTower({"Splash"}, {Pos(1, 0)})
    \/ Spawn(MaxEnemies + 1)
    \/ ClearAll
    \/ Update({50, 800, 5000})

SpecOrphan == Init /\ [][NextOrphan]_vars

\* Slowing: a Slow tower, whose cooldown is 500 ms, next to the spawn point;
\* the frame time is that cooldown or longer than the slow lasts.
NextSlow ==
    \/ PlaceTower({"Slow"}, {Pos(1, 0)})
    \/ Spawn(MaxEnemies + 1)
    \/ Update({500, 5000})

SpecSlow == Init /\ [][NextSlow]_vars

\* Ids: every operation that creates or removes something, with placements
\* that fail (out of bounds, on a tower, without gold) and spawns that fail
\* (a tower on the spawn point); the short frame leaves a projectile in
\* flight, the long one takes an enemy to the goal.
NextIds ==
    \/ PlaceTower({"Sniper"}, {Pos(1, 0), GameState_new.spawn_point, OutOfBounds})
    \/ Spawn(MaxEnemies + 1)
    \/ ClearAll
    \/ Update({50, 1600})

SpecIds == Init /\ [][NextIds]_vars

\* The damage application alone: update_projectiles has collected up to
\* MaxHits hits, of any tower type, on two enemies that stand at the spawn
\* point or two cells apart, unhurt or wounded by earlier shots (100 - 50
\* and 100 - 50 - 15 - 10 - 10); the hits are applied in one of the orders
\* the iteration of the projectiles allows.  pcall records the hits and the
\* games all orders end in.
MaxHits == 2

HealthInputs == {15, 50, 100}

HEnemy(id, x, health) ==
    [Enemy_new(id, GameState_new.spawn_point,
               <<GameState_new.spawn_point, GameState_new.goal_point>>)
     EXCEPT !.x = x, !.health = health, !.current_waypoint = 1]

HInit ==
    /\ \E h0, h1 \in HealthInputs :
       \E x1 \in {CellCenter(GameState_new.spawn_point)[1],
                   CellCenter(GameState_new.spawn_point)[1] + 2 * CELL_SIZE} :
          game = [Game_new EXCEPT
                    !.state.enemies =
                        (0 :> HEnemy(0, CellCenter(GameState_new.spawn_point)[1], h0))
                        @@ (1 :> HEnemy(1, x1, h1)),
                    !.state.next_enemy_id = 2]
    /\ last = NoOp
    /\ hist = NoHist
    /\ pgrid = Grid_new(PathWidth, PathHeight)
    /\ pcall = [fn |-> "collect"]

\* the hit a finished projectile of a tower type records on the enemy target
HitOn(g, projectile, tower_type, target) ==
    [enemy_id |-> target, damage |-> damage(tower_type), tower_type |-> tower_type,
     hit_x |-> g.state.enemies[target].x, hit_y |-> g.state.enemies[target].y,
     projectile |-> projectile]

HCollect ==
    /\ pcall.fn = "collect"
    /\ \E n \in 2 .. MaxHits :
       \E types \in [0 .. n - 1 -> TowerTypes], targets \in [0 .. n - 1 -> {0, 1}] :
          pcall' = [fn |-> "hits",
                    hits |-> [p \in 0 .. n - 1 |-> HitOn(game, p, types[p], targets[p])]]
    /\ UNCHANGED <<pgrid, gvars>>

HApply ==
    /\ pcall.fn = "hits"
    /\ \E g \in ApplyHits(game, pcall.hits) :
          /\ game' = g
          /\ last' = [op |-> "apply_hits"]
          /\ pcall' = [fn |-> "applied", hits |-> pcall.hits, before |-> game,
                       results |-> ApplyHits(game, pcall.hits)]
    /\ UNCHANGED <<pgrid, hist>>

HNext == HCollect \/ HApply

SpecHits == HInit /\ [][HNext]_vars

\* The wall scenario: a game on a 10x10 grid with the spawn point at (0, 5)
\* and the goal at (9, 5), in which Basic towers are placed on three cells of
\* column 5.
Scenario_new ==
    [Game_new EXCEPT !.state.grid = Grid_new(10, 10),
                     !.state.spawn_point = Pos(0, 5),
                     !.state.goal_point = Pos(9, 5)]

WallCells == {Pos(5, 4), Pos(5, 5), Pos(5, 6)}

InitScenario ==
    /\ game = Scenario_new
    /\ last = NoOp
    /\ hist = NoHist
    /\ pgrid = Grid_new(PathWidth, PathHeight)
    /\ pcall = NoCall

\* towers stand on the three cells of the wall
WallBuilt(st) ==
    \A c \in WallCells : \E id \in DOMAIN st.towers : st.towers[id].position = c

\* the enemies are spawned once the wall stands
SpawnBehindWall ==
    /\ WallBuilt(game.state)
    /\ Spawn(MaxEnemies)

NextScenario ==
    \/ PlaceTower({"Basic"}, WallCells)
    \/ SpawnBehindWall

SpecScenario == InitScenario /\ [][NextScenario]_vars

(***************************************************************************)
(* Reference notions the claims are stated with (not taken from the code). *)
(***************************************************************************)
\* p and q are 4-connected neighbours
Adjacent(p, q) ==
    \/ p.x = q.x /\ Abs(p.y - q.y) = 1
    \/ p.y = q.y /\ Abs(p.x - q.x) = 1

\* the cells of the grid that are walkable
WalkableCells(grid) ==
    { c \in { Pos(x, y) : x \in 0 .. grid.width - 1, y \in 0 .. grid.height - 1 } :
        is_walkable(grid, c) }

\* breadth-first search: the number of steps of a shortest walkable 4-connected
\* route from the frontier (at distance d from the start) to goal, -1 if none
RECURSIVE BfsSteps(_, _, _, _, _)
BfsSteps(cells, frontier, seen, goal, d) ==
    IF goal \in frontier THEN d
    ELSE IF frontier = {} THEN -1
    ELSE LET next == { c \in cells \ seen : \E f \in frontier : Adjacent(f, c) }
         IN BfsSteps(cells, next, seen \cup next, goal, d + 1)

ShortestSteps(grid, start, goal) ==
    IF ~is_walkable(grid, start) \/ ~is_walkable(grid, goal) THEN -1
    ELSE BfsSteps(WalkableCells(grid), {start}, {start}, goal, 0)

Connected(grid, start, goal) == ShortestSteps(grid, start, goal) >= 0

ObstacleFree(grid) == \A c \in DOMAIN grid.walkable : grid.walkable[c]

\* the indices of the interior points of a path where the direction changes
TurnIndices(path) ==
    { i \in 2 .. Len(path) - 1 :
        <<path[i].x - path[i - 1].x, path[i].y - path[i - 1].y>>
            # <<path[i + 1].x - path[i].x, path[i + 1].y - path[i].y>> }

\* the number of elements of the set of integers K that are smaller than i
Rank(K, i) == Cardinality({ k \in K : k < i })

\* the straight run of cells from a to b, both included, for a and b on one
\* row or one column; <<a, b>> otherwise
Segment(a, b) ==
    IF a.x = b.x
    THEN [i \in 1 .. Abs(b.y - a.y) + 1 |->
            Pos(a.x, IF b.y >= a.y THEN a.y + i - 1 ELSE a.y - i + 1)]
    ELSE IF a.y = b.y
    THEN [i \in 1 .. Abs(b.x - a.x) + 1 |->
            Pos(IF b.x >= a.x THEN a.x + i - 1 ELSE a.x - i + 1, a.y)]
    ELSE <<a, b>>

\* the route a list of waypoints describes: its segments filled in
RECURSIVE Expand(_)
Expand(waypoints) ==
    IF Len(waypoints) <= 1 THEN waypoints
    ELSE Segment(waypoints[1], waypoints[2]) \o Tail(Expand(Tail(waypoints)))

\* sub is a subsequence of seq
RECURSIVE IsSubsequence(_, _)
IsSubsequence(sub, seq) ==
    IF sub = << >> THEN TRUE
    ELSE IF seq = << >> THEN FALSE
    ELSE IF Head(sub) = Head(seq) THEN IsSubsequence(Tail(sub), Tail(seq))
    ELSE IsSubsequence(sub, Tail(seq))

\* route is a walkable 4-connected route of the grid from start to goal
IsRoute(grid, route, start, goal) ==
    /\ Len(route) >= 1
    /\ route[1] = start
    /\ route[Len(route)] = goal
    /\ \A i \in 1 .. Len(route) : is_walkable(grid, route[i])
    /\ \A i \in 1 .. Len(route) - 1 : Adjacent(route[i], route[i + 1])

(***************************************************************************)
(* Claims on the pathfinder, checked under SpecPath.                       *)
(***************************************************************************)

\* C1: for walkable start and goal connected by a walkable 4-connected route,
\* find_path returns a path from start to goal whose number of steps is that
\* of a shortest route; on an obstacle-free grid it has
\* manhattan_distance(start, goal) + 1 positions.
C1_ShortestPath ==
    (pcall.fn = "find_path" /\ Connected(pgrid, pcall.start, pcall.goal)) =>
        /\ pcall.result # None
        /\ pcall.result[1] = pcall.start
        /\ pcall.result[Len(pcall.result)] = pcall.goal
        /\ Len(pcall.result) = ShortestSteps(pgrid, pcall.start, pcall.goal) + 1
        /\ ObstacleFree(pgrid) =>
              Len(pcall.result) = manhattan_distance(pcall.start, pcall.goal) + 1

\* a shortest path that has to go around obstacles
C1_Witness ==
    /\ pcall.fn = "find_path"
    /\ Connected(pgrid, pcall.start, pcall.goal)
    /\ Len(pcall.result) = ShortestSteps(pgrid, pcall.start, pcall.goal) + 1
    /\ Len(pcall.result) > manhattan_distance(pcall.start, pcall.goal) + 1

\* C2: find_path returns none exactly when start or goal is not walkable or no
\* walkable 4-connected route connects them; otherwise it returns a path.
C2_NoneIffUnreachable ==
    pcall.fn = "find_path" =>
        ( pcall.result = None <=>
            \/ ~is_walkable(pgrid, pcall.start)
            \/ ~is_walkable(pgrid, pcall.goal)
            \/ ~Connected(pgrid, pcall.start, pcall.goal) )

\* none for a walkable but walled-off pair
C2_Witness ==
    /\ pcall.fn = "find_path"
    /\ is_walkable(pgrid, pcall.start)
    /\ is_walkable(pgrid, pcall.goal)
    /\ ~Connected(pgrid, pcall.start, pcall.goal)
    /\ pcall.result = None

\* C3: every position of a path returned by find_path is walkable and every
\* two consecutive positions are 4-connected neighbours.
C3_PathWalkableAndConnected ==
    pcall.fn = "find_path" =>
        /\ \A i \in 1 .. Len(pcall.result) : is_walkable(pgrid, pcall.result[i])
        /\ \A i \in 1 .. Len(pcall.result) - 1 :
              Adjacent(pcall.result[i], pcall.result[i + 1])

\* a returned path with a turn, on a grid with a blocked cell
C3_Witness ==
    /\ pcall.fn = "find_path"
    /\ Len(pcall.result) >= 4
    /\ TurnIndices(pcall.result) # {}
    /\ ~ObstacleFree(pgrid)

\* C4: find_waypoints returns the full path unchanged when it has at most 2
\* points; otherwise the first point, the interior points where the direction
\* changes, in path order, and the last point.  A straight path gives
\* [start, goal], one turn gives [start, corner, goal]; it returns none exactly
\* when find_path does.
C4_Waypoints ==
    pcall.fn = "find_waypoints" =>
        LET full == pcall.full
            wp == pcall.result
            K == TurnIndices(full)
        IN /\ (wp = None) <=> (None \in find_path(pgrid, pcall.start, pcall.goal))
           /\ (wp = None) <=> (full = None)
           /\ Len(full) <= 2 => wp = full
           /\ Len(full) > 2 =>
                /\ Len(wp) = Cardinality(K) + 2
                /\ wp[1] = full[1]
                /\ wp[Len(wp)] = full[Len(full)]
                /\ \A k \in K : wp[Rank(K, k) + 2] = full[k]
                /\ K = {} => wp = <<pcall.start, pcall.goal>>
                /\ \A k \in K : K = {k} => wp = <<pcall.start, full[k], pcall.goal>>

\* waypoints of a full path with exactly one turn
C4_Witness ==
    /\ pcall.fn = "find_waypoints"
    /\ Len(pcall.full) > 3
    /\ Cardinality(TurnIndices(pcall.full)) = 1
    /\ Len(pcall.result) = 3

\* C18: the waypoints find_waypoints returns are a subsequence of the full
\* path, two consecutive ones lie on one row or one column, the straight runs
\* between them filled in give the full path again, and so every cell on
\* them is walkable.
C18_WaypointsAreLossless ==
    (pcall.fn = "find_waypoints" /\ pcall.result # None) =>
        /\ IsSubsequence(pcall.result, pcall.full)
        /\ \A i \in 1 .. Len(pcall.result) - 1 :
              \/ pcall.result[i].x = pcall.result[i + 1].x
              \/ pcall.result[i].y = pcall.result[i + 1].y
        /\ Expand(pcall.result) = pcall.full
        /\ \A i \in 1 .. Len(Expand(pcall.result)) :
              is_walkable(pgrid, Expand(pcall.result)[i])

\* a path with two turns around an obstacle has been compressed
C18_Witness ==
    /\ pcall.fn = "find_waypoints"
    /\ pcall.result # None
    /\ Len(pcall.result) >= 4
    /\ Len(pcall.full) > Len(pcall.result)
    /\ ~ObstacleFree(pgrid)

(***************************************************************************)
(* Claims on placing, spawning and clearing, checked under Spec.           *)
(***************************************************************************)
GridCells == { Pos(x, y) : x \in 0 .. GRID_WIDTH - 1, y \in 0 .. GRID_HEIGHT - 1 }

TowersAt(st, c) == { id \in DOMAIN st.towers : st.towers[id].position = c }

\* C5: a place_tower call that returns false leaves the whole game as it was:
\* gold, towers, next_tower_id, the grid and every enemy (path and waypoint
\* index included).
C5_RejectedPlacementChangesNothing ==
    [][ (last'.op = "place_tower" /\ ~last'.ret) => game' = game ]_vars

\* a rejected placement with enough gold, on a cell a tower stands on, while
\* an enemy is on its way
C5_Witness ==
    /\ last.op = "place_tower"
    /\ ~last.ret
    /\ game.state.gold >= cost(last.tower_type)
    /\ TowersAt(game.state, last.position) # {}
    /\ DOMAIN game.state.enemies # {}

\* C6: place_tower(type, pos) returns true exactly when gold >= cost(type) and
\* pos is walkable and no tower stands on pos; then gold goes down by
\* cost(type), one tower of the type is added at pos under an id never used
\* before, pos is no longer walkable and every other cell is as walkable as
\* it was.
C6_PlacementContract ==
    [][ last'.op = "place_tower" =>
          LET st == game.state
              st2 == game'.state
              t == last'.tower_type
              pos == last'.position
              ok == /\ st.gold >= cost(t)
                    /\ is_walkable(st.grid, pos)
                    /\ TowersAt(st, pos) = {}
              added == (DOMAIN st2.towers) \ (DOMAIN st.towers)
          IN /\ last'.ret <=> ok
             /\ last'.ret =>
                   /\ st2.gold = st.gold - cost(t)
                   /\ DOMAIN st.towers \subseteq DOMAIN st2.towers
                   /\ \A id \in DOMAIN st.towers : st2.towers[id] = st.towers[id]
                   /\ Cardinality(added) = 1
                   /\ \A id \in added :
                         /\ st2.towers[id].tower_type = t
                         /\ st2.towers[id].position = pos
                         /\ id >= st.next_tower_id
                         /\ id < st2.next_tower_id
                   /\ ~is_walkable(st2.grid, pos)
                   /\ \A c \in (GridCells \cup {OutOfBounds}) \ {pos} :
                         is_walkable(st2.grid, c) = is_walkable(st.grid, c)
      ]_vars

\* the second tower has been placed
C6_Witness ==
    /\ last.op = "place_tower"
    /\ last.ret
    /\ Cardinality(DOMAIN game.state.towers) = 2
    /\ game.state.gold = 200 - hist.spent

\* C7: at every point between calls, an in-bounds cell is not walkable if and
\* only if exactly one tower stands on it; every tower's cell is not
\* walkable and no two towers share a cell.
C7_UnwalkableIffOneTower ==
    LET st == game.state
    IN /\ \A c \in GridCells :
             ~is_walkable(st.grid, c) <=> Cardinality(TowersAt(st, c)) = 1
       /\ \A id \in DOMAIN st.towers : ~is_walkable(st.grid, st.towers[id].position)
       /\ \A a, b \in DOMAIN st.towers :
             st.towers[a].position = st.towers[b].position => a = b

\* a tower stands next to a cell that clear_all made walkable again, after
\* the game has ticked
C7_Witness ==
    /\ DOMAIN game.state.towers # {}
    /\ \E c \in DOMAIN game.state.grid.walkable : game.state.grid.walkable[c]
    /\ hist.ticks > 0

\* C8: spawn_enemy returns true exactly when a walkable 4-connected route
\* leads from spawn_point to goal_point; when it returns false the game is as
\* it was (no enemy added, next_enemy_id, gold and health unchanged); when it
\* returns true the enemy is added under next_enemy_id.
C8_SpawnContract ==
    [][ last'.op = "spawn_enemy" =>
          LET st == game.state
              st2 == game'.state
          IN /\ last'.ret <=> Connected(st.grid, st.spawn_point, st.goal_point)
             /\ ~last'.ret => game' = game
             /\ last'.ret =>
                   /\ DOMAIN st2.enemies = (DOMAIN st.enemies) \cup {st.next_enemy_id}
                   /\ st.next_enemy_id \notin DOMAIN st.enemies
                   /\ st2.next_enemy_id = st.next_enemy_id + 1
                   /\ st2.gold = st.gold
                   /\ st2.health = st.health
      ]_vars

\* a spawn fails although spawn_point and goal_point are walkable: column 1
\* is walled
C8_Witness ==
    /\ last.op = "spawn_enemy"
    /\ ~last.ret
    /\ is_walkable(game.state.grid, game.state.spawn_point)
    /\ is_walkable(game.state.grid, game.state.goal_point)
    /\ \A c \in Column1 : ~is_walkable(game.state.grid, c)

\* C13 (checked under SpecReroute): after a successful place_tower, an enemy
\* with a walkable route from
\* its cell to the goal in the new grid has a new path: it starts at the
\* enemy's cell, ends at the goal, has no unwalkable cell on it (nor between
\* its waypoints), and the waypoint index is 0; an enemy without such a route
\* keeps its path and its index; nothing else of an enemy changes.
C13_PathsRecomputedOnPlacement ==
    [][ (last'.op = "place_tower" /\ last'.ret) =>
          /\ DOMAIN game'.state.enemies = DOMAIN game.state.enemies
          /\ \A id \in DOMAIN game.state.enemies :
                LET e == game.state.enemies[id]
                    e2 == game'.state.enemies[id]
                    cell == from_world(e.x, e.y)
                    grid == game'.state.grid
                    goal == game.state.goal_point
                IN IF Connected(grid, cell, goal)
                   THEN /\ IsRoute(grid, Expand(e2.path), cell, goal)
                        /\ e2.current_waypoint = 0
                        /\ e2 = [e EXCEPT !.path = e2.path, !.current_waypoint = 0]
                   ELSE e2 = e
      ]_vars

\* a placement has given an enemy that had left the spawn point a new path
\* from the cell it is in
C13_Witness ==
    /\ last.op = "place_tower"
    /\ last.ret
    /\ \E id \in DOMAIN game.state.enemies :
          /\ game.state.enemies[id].x # CellCenter(game.state.spawn_point)[1]
          /\ game.state.enemies[id].current_waypoint = 0
          /\ game.state.enemies[id].path[1] # game.state.spawn_point
          /\ game.state.enemies[id].path[1] = from_world(game.state.enemies[id].x,
                                                         game.state.enemies[id].y)

(***************************************************************************)
(* Claims on damage, checked under SpecCombat.  game.events is the log of  *)
(* the last tick that ran.                                                 *)
(***************************************************************************)
EventsOf(kind) == { i \in DOMAIN game.events : game.events[i].kind = kind }

\* C9: every hit takes an enemy from health H to max(H - D, 0), never below 0;
\* an enemy whose health reached 0 is gone from the enemies at the end of
\* that tick, and it is rewarded with 10 gold once, however many projectiles
\* hit it in that tick or later.
C9_DamageClampedKillRewardedOnce ==
    LET ev == game.events
        st == game.state
    IN /\ \A i \in EventsOf("damage") :
             /\ ev[i].after = (IF ev[i].before - ev[i].amount > 0
                               THEN ev[i].before - ev[i].amount ELSE 0)
             /\ ev[i].after >= 0
             /\ ev[i].after = 0 =>
                   /\ ev[i].enemy \notin DOMAIN st.enemies
                   /\ Cardinality({ k \in EventsOf("kill") : ev[k].enemy = ev[i].enemy }) = 1
       /\ \A k \in EventsOf("kill") :
             \E i \in EventsOf("damage") :
                i < k /\ ev[i].enemy = ev[k].enemy /\ ev[i].after = 0
       /\ \A id \in DOMAIN st.enemies : st.enemies[id].health > 0
       /\ \A id \in DOMAIN hist.kills :
             hist.kills[id] = 1 /\ id \notin DOMAIN st.enemies
       /\ st.gold = 200 - hist.spent + 10 * Cardinality(DOMAIN hist.kills)

\* a hit killed an enemy that an earlier tick had wounded, and another
\* projectile that hit the same enemy in that tick found it gone
C9_Witness ==
    LET ev == game.events
    IN \E i \in EventsOf("damage"), j \in EventsOf("remove_projectile") :
          /\ ev[i].before < 100
          /\ ev[i].after = 0
          /\ ev[j].hit
          /\ ev[j].target = ev[i].enemy
          /\ \A k \in EventsOf("damage") : ev[k].projectile # ev[j].projectile
          /\ ev[i].enemy \in DOMAIN hist.kills
          /\ game.state.gold = 200 - hist.spent + 10

\* C10: a projectile removed with its lifetime expired and at least the hit
\* threshold (10 px) away from its aim point records no hit and damages no
\* enemy.
C10_ExpiredProjectileIsCleanMiss ==
    LET ev == game.events
    IN \A j \in EventsOf("remove_projectile") :
          (ev[j].expired /\ ev[j].dist2 >= 10 * 10) =>
             /\ ~ev[j].hit
             /\ \A i \in EventsOf("damage") : ev[i].projectile # ev[j].projectile

(***************************************************************************)
(* Claims on a tick, checked under SpecWave.  In a step of Update, game is *)
(* the game before the tick and game'.events the log of the tick.          *)
(***************************************************************************)
\* the indices of the events of a kind in a log
Events(ev, kind) == { i \in DOMAIN ev : ev[i].kind = kind }

\* the index of the first call of apply_damage after index h of the log ev,
\* Len(ev) + 1 if there is none
NextHit(ev, h) ==
    IF \E j \in Events(ev, "hit") : j > h
    THEN CHOOSE j \in Events(ev, "hit") :
            j > h /\ \A q \in Events(ev, "hit") : q > h => j <= q
    ELSE Len(ev) + 1

\* the damage events of the call of apply_damage at index h
DamageOf(ev, h) == { i \in Events(ev, "damage") : h < i /\ i < NextHit(ev, h) }

\* the enemies of the game g before the tick that no event before index h of
\* the log has removed
AliveAt(g, ev, h) ==
    { id \in DOMAIN g.state.enemies :
        \A k \in 1 .. h - 1 : ev[k].kind \in {"kill", "leak"} => ev[k].enemy # id }

\* C11: a Splash hit at P damages every enemy alive at that moment within
\* splash_radius * CELL_SIZE of P, each once by the projectile's damage, and
\* no enemy farther away; a hit of another type damages the target only.
C11_SplashDamagesExactlyTheRadius ==
    [][ (last'.op = "update" /\ last'.ran) =>
          LET ev == game'.events
              radius == (splash_radius10("Splash") * CELL_SIZE) \div 10
              Expected(h) ==
                  IF ev[h].tower_type = "Splash"
                  THEN { id \in AliveAt(game, ev, h) :
                           Dist2(game.state.enemies[id].x, game.state.enemies[id].y,
                                 ev[h].hit_x, ev[h].hit_y) <= radius * radius }
                  ELSE {ev[h].enemy} \cap AliveAt(game, ev, h)
          IN \A h \in Events(ev, "hit") :
                /\ { ev[i].enemy : i \in DamageOf(ev, h) } = Expected(h)
                /\ \A id \in Expected(h) :
                      Cardinality({ i \in DamageOf(ev, h) : ev[i].enemy = id }) = 1
                /\ \A i \in DamageOf(ev, h) :
                      /\ ev[i].amount = damage(ev[h].tower_type)
                      /\ ev[i].before - ev[i].after
                            = (IF ev[i].before < ev[i].amount THEN ev[i].before
                               ELSE ev[i].amount)
      ]_vars

\* one Splash hit has damaged two enemies
C11_Witness ==
    /\ last.op = "update"
    /\ \E h \in Events(game.events, "hit") :
          /\ game.events[h].tower_type = "Splash"
          /\ Cardinality({ game.events[i].enemy : i \in DamageOf(game.events, h) }) = 2

\* the enemy e is at the last waypoint of its path or past it: within the
\* arrival threshold (2 px) of the centre of the last cell, or with its index
\* at the end already
AtEndOfPath(e) ==
    \/ e.current_waypoint >= Len(e.path)
    \/ /\ e.current_waypoint = Len(e.path) - 1
       /\ Dist2(e.x, e.y, CellCenter(e.path[Len(e.path)])[1],
                CellCenter(e.path[Len(e.path)])[2]) < 2 * 2

\* C12: in a tick, an enemy the damage has not killed leaks exactly when its
\* waypoint index gets to the end of its path in that tick; a leaked enemy is
\* gone after the tick and costs one base health, every other one stays, and
\* no enemy is left with its index at the end of its path.
C12_LeakExactlyAtEndOfPath ==
    [][ (last'.op = "update" /\ last'.ran) =>
          LET ev == game'.events
              killed == { ev[i].enemy : i \in Events(ev, "kill") }
              leaked == { ev[i].enemy : i \in Events(ev, "leak") }
          IN /\ \A id \in (DOMAIN game.state.enemies) \ killed :
                   /\ id \in leaked <=> AtEndOfPath(game.state.enemies[id])
                   /\ id \in DOMAIN game'.state.enemies <=> id \notin leaked
             /\ leaked \cap killed = {}
             /\ Cardinality(Events(ev, "leak")) = Cardinality(leaked)
             /\ game'.state.health = game.state.health - Cardinality(leaked)
             /\ \A id \in DOMAIN game'.state.enemies :
                   game'.state.enemies[id].current_waypoint
                      < Len(game'.state.enemies[id].path)
      ]_vars

\* an enemy has leaked while another one is still on its way
C12_Witness ==
    /\ last.op = "update"
    /\ Events(game.events, "leak") # {}
    /\ game.state.health = 19
    /\ DOMAIN game.state.enemies # {}
    /\ DOMAIN hist.leaks # {}

\* the phase of a tick an event of the log belongs to
PhaseOf(e) ==
    CASE e.kind = "fire" -> 1
      [] e.kind = "remove_projectile" -> 2
      [] e.kind \in {"hit", "damage", "kill"} -> 3
      [] e.kind = "leak" -> 4

\* C19 (checked under SpecPhases): in the log of a tick that ran, the shots
\* come first, then the
\* removals of projectiles, then the damage and the kills, then the leaks; a
\* projectile fired in the tick has been removed in it or has aged by the
\* frame time; an enemy killed in the tick was hit where it stood before the
\* tick, has not leaked and is gone; the effects created in the tick have
\* decayed by the frame time.
C19_PhaseOrder ==
    [][ (last'.op = "update" /\ last'.ran) =>
          LET ev == game'.events
          IN /\ \A i, j \in DOMAIN ev : i < j => PhaseOf(ev[i]) <= PhaseOf(ev[j])
             /\ \A i \in Events(ev, "fire") :
                   \/ \E j \in Events(ev, "remove_projectile") :
                         ev[j].projectile = ev[i].projectile
                   \/ /\ ev[i].projectile \in DOMAIN game'.projectiles
                      /\ game'.projectiles[ev[i].projectile].lifetime = 5000 - last'.delta
             /\ \A k \in Events(ev, "kill") :
                   /\ ev[k].enemy \notin DOMAIN game'.state.enemies
                   /\ \A l \in Events(ev, "leak") : ev[l].enemy # ev[k].enemy
                   /\ \A h \in Events(ev, "hit") :
                         ev[h].enemy = ev[k].enemy =>
                            /\ ev[h].hit_x = game.state.enemies[ev[k].enemy].x
                            /\ ev[h].hit_y = game.state.enemies[ev[k].enemy].y
             /\ \A i \in DOMAIN game'.muzzle_flashes :
                   game'.muzzle_flashes[i].lifetime <= 100 - last'.delta
             /\ \A i \in DOMAIN game'.explosions :
                   game'.explosions[i].lifetime <= 300 - last'.delta
      ]_vars

\* a tick, not the first, in which two towers fired and their projectiles
\* killed the enemy
C19_Witness ==
    /\ last.op = "update"
    /\ last.ran
    /\ Events(game.events, "kill") # {}
    /\ Cardinality(Events(game.events, "fire")) = 2
    /\ hist.ticks > 1

(***************************************************************************)
(* Claim on the wall scenario, checked under SpecScenario.                 *)
(***************************************************************************)
\* C14 as stated: with the wall built, spawn_enemy succeeds and the path of
\* the spawned enemy has at least 11 positions, none of them a wall cell.
C14_PathOfAtLeast11 ==
    [][ (last'.op = "spawn_enemy" /\ WallBuilt(game.state)) =>
          /\ last'.ret
          /\ LET path == game'.state.enemies[game.state.next_enemy_id].path
             IN /\ Len(path) >= 11
                /\ \A i \in 1 .. Len(path) : path[i] \notin WallCells
      ]_vars

\* C14 amended: with the wall built, spawn_enemy succeeds; the path of the
\* spawned enemy is a list of waypoints, and the route it describes, from the
\* spawn point to the goal, has at least 11 cells, none of them a wall cell.
C14_RouteOfAtLeast11 ==
    [][ (last'.op = "spawn_enemy" /\ WallBuilt(game.state)) =>
          /\ last'.ret
          /\ LET path == game'.state.enemies[game.state.next_enemy_id].path
                 route == Expand(path)
             IN /\ IsRoute(game.state.grid, route, Pos(0, 5), Pos(9, 5))
                /\ Len(route) >= 11
                /\ \A i \in 1 .. Len(route) : route[i] \notin WallCells
      ]_vars

\* an enemy has been spawned behind the wall, with fewer than 11 waypoints
C14_Witness ==
    /\ last.op = "spawn_enemy"
    /\ last.ret
    /\ WallBuilt(game.state)
    /\ \E id \in DOMAIN game.state.enemies :
          /\ game.state.enemies[id].current_waypoint = 0
          /\ Len(game.state.enemies[id].path) \in 3 .. 10
          /\ Len(Expand(game.state.enemies[id].path)) >= 11

(***************************************************************************)
(* Claim on pausing, checked under SpecPause.                              *)
(***************************************************************************)
\* C15: update while paused changes nothing of the game (towers, enemies,
\* projectiles, effects, gold, health, grid, id counters); update while not
\* paused runs every phase: each tower cools down (when its cooldown is
\* positive) or fires, each projectile ages or is removed, each enemy
\* advances or leaks, each effect decays.
C15_PausedUpdateIsNoOp ==
    [][ last'.op = "update" =>
          IF game.state.paused
          THEN game' = game /\ ~last'.ran
          ELSE /\ last'.ran
               /\ \A id \in DOMAIN game.state.towers :
                     \/ game'.state.towers[id].cooldown_remaining
                           = (IF game.state.towers[id].cooldown_remaining > 0
                              THEN game.state.towers[id].cooldown_remaining - last'.delta
                              ELSE game.state.towers[id].cooldown_remaining)
                     \/ \E i \in Events(game'.events, "fire") : game'.events[i].tower = id
               /\ \A id \in DOMAIN game.projectiles :
                     \/ id \notin DOMAIN game'.projectiles
                     \/ game'.projectiles[id].lifetime
                           = game.projectiles[id].lifetime - last'.delta
               /\ \A id \in DOMAIN game.state.enemies :
                     \/ id \notin DOMAIN game'.state.enemies
                     \/ game'.state.enemies[id] # game.state.enemies[id]
               /\ \A i \in DOMAIN game'.muzzle_flashes :
                     game'.muzzle_flashes[i].lifetime <= 100 - last'.delta
      ]_vars

\* update has been called on a paused game with a tower cooling down, an
\* enemy, a projectile in flight and a muzzle flash
C15_Witness ==
    /\ last.op = "update"
    /\ ~last.ran
    /\ game.state.paused
    /\ \E id \in DOMAIN game.state.towers : game.state.towers[id].cooldown_remaining > 0
    /\ DOMAIN game.state.enemies # {}
    /\ DOMAIN game.projectiles # {}
    /\ game.muzzle_flashes # << >>

(***************************************************************************)
(* Claim on the coordinate conversion, checked under SpecCoord.            *)
(***************************************************************************)
\* C16 as stated: for every integer position p, to_world (with or without
\* the offset to the centre) followed by from_world gives p again.
C16_RoundTrip ==
    pcall.fn = "from_world" => pcall.q = pcall.p

\* C16 amended: the round trip gives p again for every position p whose
\* coordinates are at most 2^20 in magnitude, negative ones included.
C16_RoundTripUpTo2Pow20 ==
    (/\ pcall.fn = "from_world"
     /\ Abs(pcall.p.x) <= 2 ^ 20
     /\ Abs(pcall.p.y) <= 2 ^ 20) => pcall.q = pcall.p

\* a position with a negative coordinate has made the round trip by the
\* centre of its cell
C16_Witness ==
    /\ pcall.fn = "from_world"
    /\ pcall.centre
    /\ pcall.p.x = -1
    /\ pcall.p.y = -(2 ^ 20)
    /\ pcall.w = <<-20, 20 - 40 * (2 ^ 20)>>
    /\ pcall.q = pcall.p

(***************************************************************************)
(* Claim on the order of the open set, checked under SpecSearch.           *)
(***************************************************************************)
\* C17 as stated: the popped node has the least g + h of the queued nodes,
\* and among the queued nodes with that g + h the largest h.
C17_LargerHFirst ==
    (pcall.fn \in {"search", "found"} /\ pcall.popped # << >>) =>
        \A n \in pcall.queued :
            /\ f_cost(pcall.popped[1]) <= f_cost(n)
            /\ f_cost(pcall.popped[1]) = f_cost(n) => pcall.popped[1].h_cost >= n.h_cost

\* C17 amended: the popped node has the least g + h of the queued nodes, and
\* among the queued nodes with that g + h the smallest h.
C17_SmallerHFirst ==
    (pcall.fn \in {"search", "found"} /\ pcall.popped # << >>) =>
        \A n \in pcall.queued :
            /\ f_cost(pcall.popped[1]) <= f_cost(n)
            /\ f_cost(pcall.popped[1]) = f_cost(n) => pcall.popped[1].h_cost <= n.h_cost

\* a node was popped while a node of the same g + h and a larger h, and a
\* node of a larger g + h, were queued
C17_Witness ==
    /\ pcall.fn \in {"search", "found"}
    /\ pcall.popped # << >>
    /\ \E n \in pcall.queued :
          f_cost(n) = f_cost(pcall.popped[1]) /\ n.h_cost > pcall.popped[1].h_cost
    /\ \E n \in pcall.queued : f_cost(n) > f_cost(pcall.popped[1])


InRange(st, tower) ==
    LET range == (range10(tower.tower_type) * CELL_SIZE) \div 10
    IN { id \in DOMAIN st.enemies :
           /\ st.enemies[id].health > 0
           /\ Dist2(st.enemies[id].x, st.enemies[id].y,
                    CellCenter(tower.position)[1], CellCenter(tower.position)[2])
                 <= range * range }

\* C21: the target of every shot is an alive enemy within range * CELL_SIZE
\* of the tower's centre whose current_waypoint is the greatest among the
\* alive enemies in range, and the projectile created carries the target's id
\* and the damage and speed of the tower's type.
C21_TargetIsFurthestInRange ==
    [][ (last'.op = "update" /\ last'.ran) =>
          \A i \in Events(game'.events, "fire") :
             LET f == game'.events[i]
                 tower == game.state.towers[f.tower]
                 candidates == InRange(game.state, tower)
             IN /\ f.target \in candidates
                /\ \A other \in candidates :
                      game.state.enemies[f.target].current_waypoint
                         >= game.state.enemies[other].current_waypoint
                /\ f.target_id = f.target
                /\ f.damage = damage(tower.tower_type)
                /\ f.speed = projectile_speed(tower.tower_type)
      ]_vars

\* a tower fired at an enemy that walked on in the tick, so that it was under
\* way with index 1, and not at an enemy that is still at the spawn point
\* with the index 1 it got in the tick, so that it had index 0; both were in
\* its range.  A second tower that never fired had no enemy in range.
C21_Witness ==
    /\ last.op = "update"
    /\ last.ran
    /\ \E i \in EventsOf("fire") : \E o \in DOMAIN game.state.enemies :
          LET f == game.events[i]
              st == game.state
          IN /\ f.target \in DOMAIN st.enemies
             /\ o # f.target
             /\ st.enemies[o].x = CellCenter(st.spawn_point)[1]
             /\ st.enemies[o].current_waypoint = 1
             /\ st.enemies[f.target].x > CellCenter(st.spawn_point)[1] + 40
             /\ o \in InRange(st, st.towers[f.tower])
             /\ \E b \in DOMAIN st.towers :
                   /\ b # f.tower
                   /\ st.towers[b].cooldown_remaining = 0
                   /\ \A j \in EventsOf("fire") : game.events[j].tower # b

\* C22: in a tick that ran, a tower whose cooldown was at most 0 before the
\* tick and that had an alive enemy in range fired exactly one projectile,
\* has that enemy as its target and a cooldown of 1 / fire_rate; one whose
\* cooldown was at most 0 and that had no enemy in range fired nothing, has
\* no target and its cooldown unchanged; one whose cooldown was above 0 fired
\* nothing, keeps its target and has its cooldown reduced by the frame time.
\* The tick created as many projectiles as there were shots.
C22_FiresExactlyWhenReadyAndInRange ==
    [][ (last'.op = "update" /\ last'.ran) =>
          LET ev == game'.events
              Shots(id) == { i \in Events(ev, "fire") : ev[i].tower = id }
          IN /\ DOMAIN game'.state.towers = DOMAIN game.state.towers
             /\ game'.next_projectile_id
                   = game.next_projectile_id + Cardinality(Events(ev, "fire"))
             /\ \A i \in Events(ev, "fire") :
                   ev[i].projectile \in
                      game.next_projectile_id .. game'.next_projectile_id - 1
             /\ \A id \in DOMAIN game.state.towers :
                   LET t == game.state.towers[id]
                       t2 == game'.state.towers[id]
                   IN IF t.cooldown_remaining <= 0 /\ InRange(game.state, t) # {}
                      THEN /\ Cardinality(Shots(id)) = 1
                           /\ \A i \in Shots(id) : t2.target_id = <<ev[i].target>>
                           /\ t2.cooldown_remaining
                                 = 10000 \div fire_rate10(t.tower_type)
                      ELSE IF t.cooldown_remaining <= 0
                      THEN /\ Shots(id) = {}
                           /\ t2.target_id = << >>
                           /\ t2.cooldown_remaining = t.cooldown_remaining
                      ELSE /\ Shots(id) = {}
                           /\ t2.target_id = t.target_id
                           /\ t2.cooldown_remaining = t.cooldown_remaining - last'.delta
      ]_vars

\* in one tick a tower fired, and a tower that had fired before, its
\* cooldown being below 0, found no enemy in range and has no target
C22_Witness ==
    /\ last.op = "update"
    /\ last.ran
    /\ EventsOf("fire") # {}
    /\ \E id \in DOMAIN game.state.towers :
          /\ game.state.towers[id].cooldown_remaining < 0
          /\ game.state.towers[id].target_id = << >>
          /\ \A i \in EventsOf("fire") : game.events[i].tower # id

(***************************************************************************)
(* Claim on the cooldown, checked under SpecClock.                         *)
(***************************************************************************)
\* C23: a tower fires at most once in a tick; the ticks that ran between two
\* consecutive shots of a tower add up to at least 1 / fire_rate; a cooldown
\* that is at most 0 is not decremented.
C23_NoBankingOfOverdueShots ==
    [][ /\ \A id \in DOMAIN pcall'.gap :
             pcall'.gap[id]
                >= 10000 \div fire_rate10(game'.state.towers[id].tower_type)
        /\ \A i, j \in Events(game'.events, "fire") :
             game'.events[i].tower = game'.events[j].tower => i = j
        /\ \A id \in DOMAIN game.state.towers :
             game.state.towers[id].cooldown_remaining <= 0 =>
                \/ game'.state.towers[id].cooldown_remaining
                      = game.state.towers[id].cooldown_remaining
                \/ /\ last'.op = "update"
                   /\ last'.ran
                   /\ id \in Shooters(game'.events)
                   /\ game'.state.towers[id].cooldown_remaining
                         = 10000 \div fire_rate10(game.state.towers[id].tower_type)
      ]_vars

\* a tower has fired once in a tick after its cooldown had been expired for
\* four times its length
C23_Witness ==
    /\ last.op = "update"
    /\ last.ran
    /\ \E i \in EventsOf("fire") :
          LET id == game.events[i].tower
          IN /\ id \in DOMAIN pcall.gap
             /\ pcall.gap[id] >= 5000
             /\ game.state.towers[id].cooldown_remaining = 1000

(***************************************************************************)
(* Claim on projectiles that lost their target, checked under SpecOrphan.  *)
(***************************************************************************)
\* C24: in a tick that ran, a projectile whose target is in the enemies is
\* aimed at that enemy's position; one whose target is not keeps its aim
\* point, stays in flight exactly while it is at least 10 pixels from it and
\* has lifetime left, and is removed without a hit otherwise; all damage of
\* the tick comes from projectiles whose target was in the enemies.
C24_OrphanProjectileDamagesNothing ==
    [][ (last'.op = "update" /\ last'.ran) =>
          LET ev == game'.events
              enemies == game.state.enemies
              Removal(p) == { i \in Events(ev, "remove_projectile") : ev[i].projectile = p }
          IN /\ \A p \in DOMAIN game.projectiles :
                   LET before == game.projectiles[p]
                   IN IF before.target_id \in DOMAIN enemies
                      THEN p \in DOMAIN game'.projectiles =>
                              /\ game'.projectiles[p].target_x = enemies[before.target_id].x
                              /\ game'.projectiles[p].target_y = enemies[before.target_id].y
                      ELSE IF p \in DOMAIN game'.projectiles
                      THEN /\ game'.projectiles[p].target_x = before.target_x
                           /\ game'.projectiles[p].target_y = before.target_y
                           /\ game'.projectiles[p].lifetime = before.lifetime - last'.delta
                           /\ game'.projectiles[p].lifetime > 0
                           /\ Dist2(before.target_x, before.target_y,
                                    game'.projectiles[p].x, game'.projectiles[p].y)
                                 >= 10 * 10
                           /\ Removal(p) = {}
                      ELSE /\ Cardinality(Removal(p)) = 1
                           /\ \A i \in Removal(p) :
                                 /\ ~ev[i].hit
                                 /\ ev[i].expired \/ ev[i].dist2 < 10 * 10
                           /\ \A i \in Events(ev, "hit") \cup Events(ev, "damage") :
                                 ev[i].projectile # p
             /\ \A i \in Events(ev, "damage") :
                   \/ /\ ev[i].projectile \in DOMAIN game.projectiles
                      /\ game.projectiles[ev[i].projectile].target_id \in DOMAIN enemies
                   \/ \E f \in Events(ev, "fire") :
                         /\ ev[f].projectile = ev[i].projectile
                         /\ ev[f].target \in DOMAIN enemies
      ]_vars

\* a Splash projectile whose target is gone has arrived at its aim point and
\* is removed; an enemy spawned later stands there with its health untouched
C24_Witness ==
    /\ last.op = "update"
    /\ last.ran
    /\ \E i \in EventsOf("remove_projectile") : \E e \in DOMAIN game.state.enemies :
          /\ ~game.events[i].hit
          /\ ~game.events[i].expired
          /\ game.events[i].target # e
          /\ game.events[i].target \notin DOMAIN game.state.enemies
          /\ game.state.enemies[e].x = CellCenter(game.state.spawn_point)[1]
          /\ game.state.enemies[e].health = 100
          /\ EventsOf("damage") = {}

(***************************************************************************)
(* Claim on the slow effect, checked under SpecSlow.                       *)
(***************************************************************************)
\* C25: a Slow hit damages its target only; an enemy hit by a Slow projectile
\* in a tick has, after the tick, a slow of 2000 ms less the frame time,
\* whatever slow it had; the slow of any other enemy has decreased by the
\* frame time if it was positive and is unchanged if not; after every step
\* the multiplier of an enemy is 0.5 if its slow duration is positive and 1.0
\* if not.
C25_SlowOverridesAndExpires ==
    [][ /\ \A id \in DOMAIN game'.state.enemies :
             LET e2 == game'.state.enemies[id]
             IN e2.slow_multiplier = (IF e2.slow_duration > 0 THEN 50 ELSE 100)
        /\ (last'.op = "update" /\ last'.ran) =>
             LET ev == game'.events
                 SlowHits(id) == { i \in Events(ev, "damage") :
                                     ev[i].tower_type = "Slow" /\ ev[i].enemy = id }
             IN /\ \A h \in Events(ev, "hit") :
                      ev[h].tower_type = "Slow" =>
                         \A i \in DamageOf(ev, h) : ev[i].enemy = ev[h].enemy
                /\ \A id \in (DOMAIN game.state.enemies) \cap (DOMAIN game'.state.enemies) :
                      LET e == game.state.enemies[id]
                          e2 == game'.state.enemies[id]
                      IN /\ e2.health = e.health - damage("Slow") * Cardinality(SlowHits(id))
                         /\ e2.slow_duration =
                               (IF SlowHits(id) # {} THEN 2000 - last'.delta
                                ELSE IF e.slow_duration > 0
                                THEN e.slow_duration - last'.delta
                                ELSE e.slow_duration)
      ]_vars

\* an enemy hit in the first and in the third of three short ticks is slowed
\* anew for 2000 ms less the frame time, and has not come far; another enemy
\* is unhurt and not slowed
C25_Witness ==
    /\ last.op = "update"
    /\ last.ran
    /\ \E id, o \in DOMAIN game.state.enemies :
          LET e == game.state.enemies[id]
          IN /\ \E i \in EventsOf("damage") :
                   game.events[i].enemy = id /\ game.events[i].tower_type = "Slow"
             /\ e.health = 90
             /\ e.slow_duration = 2000 - last.delta
             /\ e.slow_multiplier = 50
             /\ e.x <= CellCenter(game.state.spawn_point)[1] + 40
             /\ o # id
             /\ game.state.enemies[o].health = 100
             /\ game.state.enemies[o].slow_duration = 0

(***************************************************************************)
(* Claim on the ids, checked under SpecIds.                                *)
(***************************************************************************)
\* the enemy ids the towers and projectiles of the game g refer to
TargetsHeld(g) ==
    { g.state.towers[t].target_id[1] :
        t \in { q \in DOMAIN g.state.towers : g.state.towers[q].target_id # << >> } }
      \cup { g.projectiles[p].target_id : p \in DOMAIN g.projectiles }

\* C26: in every step each id counter grows by one for each creation that
\* succeeded in it and is otherwise unchanged; a new tower, enemy or
\* projectile has the value of its counter as id; every id in a collection
\* and every target id held is below the matching counter; the id of a new
\* enemy is not held as a target and was never the id of an enemy killed,
\* leaked or cleared.
C26_IdsMonotonicNeverReused ==
    [][ LET st == game.state
            st2 == game'.state
            shots == IF last'.op = "update" /\ last'.ran
                     THEN Events(game'.events, "fire") ELSE {}
        IN /\ st2.next_tower_id = st.next_tower_id
                 + (IF last'.op = "place_tower" /\ last'.ret THEN 1 ELSE 0)
           /\ st2.next_enemy_id = st.next_enemy_id
                 + (IF last'.op = "spawn_enemy" /\ last'.ret THEN 1 ELSE 0)
           /\ game'.next_projectile_id = game.next_projectile_id + Cardinality(shots)
           /\ (DOMAIN st2.towers) \ (DOMAIN st.towers) \subseteq {st.next_tower_id}
           /\ (DOMAIN st2.enemies) \ (DOMAIN st.enemies) \subseteq {st.next_enemy_id}
           /\ (DOMAIN game'.projectiles) \ (DOMAIN game.projectiles)
                 \subseteq game.next_projectile_id .. game'.next_projectile_id - 1
           /\ \A i \in shots :
                 game'.events[i].projectile
                    \in game.next_projectile_id .. game'.next_projectile_id - 1
           /\ \A id \in DOMAIN st2.towers : id < st2.next_tower_id
           /\ \A id \in DOMAIN st2.enemies : id < st2.next_enemy_id
           /\ \A id \in DOMAIN game'.projectiles : id < game'.next_projectile_id
           /\ \A id \in TargetsHeld(game') : id < st2.next_enemy_id
           /\ \A id \in (DOMAIN st2.enemies) \ (DOMAIN st.enemies) :
                 /\ id \notin TargetsHeld(game)
                 /\ id \notin (DOMAIN hist.kills) \cup (DOMAIN hist.leaks)
                                 \cup (DOMAIN hist.cleared)
      ]_vars

\* an enemy is spawned after clear_all while a projectile aimed at a cleared
\* enemy is in flight: it gets another id than that projectile's target
C26_Witness ==
    /\ last.op = "spawn_enemy"
    /\ last.ret
    /\ DOMAIN hist.cleared # {}
    /\ \E p \in DOMAIN game.projectiles :
          /\ game.projectiles[p].target_id \in DOMAIN hist.cleared
          /\ game.projectiles[p].target_id \notin DOMAIN game.state.enemies
          /\ game.state.next_enemy_id - 1 \in DOMAIN game.state.enemies
          /\ game.state.next_enemy_id - 1 > game.projectiles[p].target_id

(***************************************************************************)
(* Claim on the grid, checked under SpecGrid.                              *)
(***************************************************************************)
InBounds(grid, pos) ==
    pos.x >= 0 /\ pos.x < grid.width /\ pos.y >= 0 /\ pos.y < grid.height

\* C27: after set_walkable(pos, v), the grid is as before if pos is out of
\* bounds; if pos is in bounds, is_walkable(pos) = v and is_walkable of every
\* other cell is as before; is_walkable is false out of bounds, and true for
\* a cell in bounds that was never set.
C27_SetWalkableOutOfBoundsIsNoOp ==
    /\ \A pos \in PathInputs :
          /\ ~InBounds(pgrid, pos) => ~is_walkable(pgrid, pos)
          /\ (InBounds(pgrid, pos) /\ pos \notin DOMAIN pgrid.walkable)
                => is_walkable(pgrid, pos)
    /\ pcall.fn = "set_walkable" =>
          IF InBounds(pcall.before, pcall.pos)
          THEN /\ is_walkable(pgrid, pcall.pos) = pcall.walkable
               /\ \A other \in PathInputs \ {pcall.pos} :
                     is_walkable(pgrid, other) = is_walkable(pcall.before, other)
          ELSE pgrid = pcall.before

(***************************************************************************)
(* Claim on the order of the hits, checked under SpecHits.                 *)
(***************************************************************************)
\* C28: all orders in which the hits collected in a tick can be applied end
\* with the same enemies (membership, health, slow) and the same gold.
C28_HitOrderDoesNotMatter ==
    pcall.fn = "applied" =>
       \A a, b \in pcall.results :
          /\ a.state.enemies = b.state.enemies
          /\ a.state.gold = b.state.gold

\* a Sniper hit killed its target and a Splash hit on the same target,
\* applied after it, damaged the other enemy; in another order of the same
\* hits the Splash hit came first
C28_Witness ==
    /\ pcall.fn = "applied"
    /\ \E h1, h2 \in EventsOf("hit") : \E k \in EventsOf("kill") : \E d \in EventsOf("damage") :
          /\ h1 < k
          /\ k < h2
          /\ h2 < d
          /\ game.events[h1].tower_type = "Sniper"
          /\ game.events[h2].tower_type = "Splash"
          /\ game.events[h1].enemy = game.events[k].enemy
          /\ game.events[h2].enemy = game.events[k].enemy
          /\ game.events[d].enemy # game.events[k].enemy
          /\ \E other \in pcall.results :
                other.events # game.events /\ other.events[1].tower_type = "Splash"

(***************************************************************************)
(* Claim on the accounting of enemies, checked under SpecIds.              *)
(***************************************************************************)
RECURSIVE Total(_)
Total(m) ==
    IF DOMAIN m = {} THEN 0
    ELSE LET k == CHOOSE q \in DOMAIN m : TRUE
         IN m[k] + Total(MapRemove(m, k))

\* C29: after every operation, the successful spawns are the enemies present
\* plus the kills plus the leaks plus the removals by clear_all, each spawned
\* enemy counted in exactly one of the four; a tick removes exactly the
\* enemies it kills or leaks, gains 10 gold per kill and loses 1 base health
\* per leak; no enemy is both killed and leaked; every enemy present has
\* health above 0.
C29_EnemiesLeaveExactlyOnce ==
    [][ LET st == game.state
            st2 == game'.state
            ran == last'.op = "update" /\ last'.ran
            killed == IF ran THEN EventEnemies(game'.events, "kill") ELSE << >>
            leaked == IF ran THEN EventEnemies(game'.events, "leak") ELSE << >>
            Ids(seq) == { seq[i] : i \in DOMAIN seq }
            gone == (DOMAIN st.enemies) \ (DOMAIN st2.enemies)
        IN /\ st2.next_enemy_id = Cardinality(DOMAIN st2.enemies) + Total(hist'.kills)
                                      + Total(hist'.leaks) + Total(hist'.cleared)
           /\ \A id \in 0 .. st2.next_enemy_id - 1 :
                 Cardinality({ c \in {"present", "killed", "leaked", "cleared"} :
                                 \/ c = "present" /\ id \in DOMAIN st2.enemies
                                 \/ c = "killed" /\ id \in DOMAIN hist'.kills
                                 \/ c = "leaked" /\ id \in DOMAIN hist'.leaks
                                 \/ c = "cleared" /\ id \in DOMAIN hist'.cleared }) = 1
           /\ st2.gold = 200 - hist'.spent + 10 * Total(hist'.kills)
           /\ st2.health = 20 - Total(hist'.leaks)
           /\ \A id \in DOMAIN st2.enemies : st2.enemies[id].health > 0
           /\ last'.op = "update" =>
                 /\ gone = Ids(killed) \cup Ids(leaked)
                 /\ Ids(killed) \cap Ids(leaked) = {}
                 /\ Cardinality(gone) = Len(killed) + Len(leaked)
                 /\ st2.gold = st.gold + 10 * Len(killed)
                 /\ st2.health = st.health - Len(leaked)
           /\ last'.op = "clear_all" =>
                 /\ gone = DOMAIN st.enemies
                 /\ st2.gold = st.gold
                 /\ st2.health = st.health
           /\ last'.op \in {"spawn_enemy", "place_tower"} =>
                 /\ gone = {}
                 /\ st2.health = st.health
      ]_vars

\* one enemy has been killed and another has leaked, and the last operation
\* was a tick
C29_Witness ==
    /\ last.op = "update"
    /\ last.ran
    /\ DOMAIN hist.kills # {}
    /\ DOMAIN hist.leaks # {}
    /\ game.state.gold = 200 - hist.spent + 10
    /\ game.state.health = 19

(***************************************************************************)
(* Specification of the main loop running forever: every frame calls       *)
(* update with the frame time, enemies are spawned and the pause key is    *)
(* pressed in between; no tower is placed.  The number of frames is not    *)
(* bounded, and hist does not count them.  The loop never stops calling    *)
(* update, hence the weak fairness of Frame.                               *)
(***************************************************************************)
\* frame times of 10 and 1 frames per second, in milliseconds
LiveDeltas == {100, 1000}

Frame(deltas) ==
    /\ \E delta \in deltas :
         \E g \in update(game, delta) :
            /\ game' = g
            /\ last' = [op |-> "update", delta |-> delta, ran |-> ~game.state.paused]
            /\ hist' = IF game.state.paused
                       THEN hist
                       ELSE [hist EXCEPT
                                !.kills = BumpSeq(@, EventEnemies(g.events, "kill")),
                                !.leaks = BumpSeq(@, EventEnemies(g.events, "leak"))]
    /\ UNCHANGED pvars

NextLive == SpawnEnemy \/ TogglePause \/ Frame(LiveDeltas)

SpecLive == Init /\ [][NextLive]_vars /\ WF_vars(Frame(LiveDeltas))

(***************************************************************************)
(* Claim on the liveness of the enemies, checked under SpecLive.           *)
(***************************************************************************)
\* C30: if update runs unpaused again and again, every enemy in the
\* collection is eventually removed from it.
C30_EveryEnemyEventuallyRemoved ==
    []<>(last.op = "update" /\ last.ran) =>
       \A id \in 0 .. MaxEnemies - 1 :
          (id \in DOMAIN game.state.enemies) ~> (id \notin DOMAIN game.state.enemies)

====
